---- MODULE Spec2Model ----
(***************************************************************************)
(* Model of the decision core of leaf: the Fake-DNS allocator              *)
(* (leaf/src/app/fake_dns.rs), the Router with its matchers                *)
(* (leaf/src/app/router.rs), the label trie (leaf/src/app/trie.rs), the    *)
(* registrable domain (leaf/src/config/domain_rule.rs) and the session of  *)
(* the Hysteria datagram handler (leaf/src/proxy/hysteria/datagram.rs).    *)
(*                                                                         *)
(* Representation notes.                                                   *)
(*  - A Rust String is a sequence of one-character strings, so that        *)
(*    str::contains and the stripping of the trailing root dot are         *)
(*    computed on characters.                                              *)
(*  - A u32 is a pair <<hi, lo>> of 16-bit halves (TLC integers are        *)
(*    32-bit signed, 198.18.0.0 does not fit); increment and comparison    *)
(*    are defined on the pair and wrap at 2^32.                            *)
(*  - An Ipv4Addr is its four octets <<a, b, c, d>>; an IpAddr is a        *)
(*    record tagged V4 or V6.                                              *)
(*  - An Option is None / Some(v); a Result is Err(e) / Ok(v).             *)
(***************************************************************************)
EXTENDS Integers, Sequences, FiniteSets, TLC

VARIABLES
    ip_to_domain,   \* FakeDnsImpl.ip_to_domain : HashMap<u32, String>
    domain_to_ip,   \* FakeDnsImpl.domain_to_ip : HashMap<String, u32>
    cursor,         \* FakeDnsImpl.cursor       : u32
    min_cursor,     \* FakeDnsImpl.min_cursor   : u32
    max_cursor,     \* FakeDnsImpl.max_cursor   : u32
    ttl,            \* FakeDnsImpl.ttl          : u32
    filters,        \* FakeDnsImpl.filters      : Vec<String>
    mode,           \* FakeDnsImpl.mode         : FakeDnsMode
    last_op,        \* the last call made on the FakeDns: its name,
    last_arg,       \*   its argument,
    last_ret,       \*   what it returned,
    last_alloc,     \*   and the allocation it made, if any
    lock,           \* FakeDns.0 : RwLock, its writer and its readers
    task,           \* the callers of FakeDns: where each is in its call
    rules,          \* Router.rules          : Vec<Rule>
    domain_resolve, \* Router.domain_resolve : bool
    route_cache,    \* Router.route_cache    : RwLock<HashMap<String, String>>
    route,          \* the callers of pick_route: where each is in its call
    router_last,    \* the last call of the Router that returned
    returned,       \* the tags pick_route returned, by cache key, since the
                    \*   rules were last loaded
    tried,          \* the last matcher, trie or loading operation tried on
                    \*   its own: its name, its inputs and its result
    session,        \* hysteria Handler.session : Mutex<Option<Arc<UdpSession>>>
    session_guard,  \* the task that holds the Mutex of Handler.session
    handle,         \* the callers of Handler::handle: where each is in its call
    creations       \* how often get_or_create_session has returned a session

\* the operation tried on its own
matchVars == <<tried>>

\* the Hysteria datagram handler
hysteriaVars == <<session, session_guard, handle, creations>>

\* the Router
routerVars == <<rules, domain_resolve, route_cache, route, router_last, returned>>

\* the FakeDns and its callers
fakeDnsVars ==
    <<ip_to_domain, domain_to_ip, cursor, min_cursor, max_cursor, ttl,
      filters, mode, last_op, last_arg, last_ret, last_alloc, lock, task>>

vars == <<fakeDnsVars, routerVars, matchVars, hysteriaVars>>

\* the last call as one record
last ==
    [op |-> last_op, arg |-> last_arg, ret |-> last_ret, alloc |-> last_alloc]

---------------------------------------------------------------------------
(* Bounds of the model.                                                    *)

\* Offset of the last address of the range from its first address. The
\* program's range 198.18.0.0 - 198.18.255.255 has offset 65535; the stateful
\* specification Spec runs on a short range so that the cursor wraps and
\* addresses are reused. SpecCursor runs on the program's range.
RangeLast == 2

\* Longest filter list add_filter builds.
MaxFilters == 2

---------------------------------------------------------------------------
(* Option, Result, maps.                                                   *)

None == [some |-> FALSE]
Some(v) == [some |-> TRUE, val |-> v]

Err(e) == [ok |-> FALSE, err |-> e]
Ok(v) == [ok |-> TRUE, val |-> v]

EmptyMap == [k \in {} |-> k]

\* HashMap::get
MapGet(m, k) == IF k \in DOMAIN m THEN Some(m[k]) ELSE None

\* HashMap::insert: the new map; the previous value is MapGet(m, k)
MapInsert(m, k, v) == [x \in (DOMAIN m) \cup {k} |-> IF x = k THEN v ELSE m[x]]

\* HashMap::remove
MapRemove(m, k) == [x \in (DOMAIN m) \ {k} |-> m[x]]

---------------------------------------------------------------------------
(* u32 and Ipv4Addr.                                                       *)

U32Inc(x) ==
    IF x[2] = 65535 THEN <<(x[1] + 1) % 65536, 0>> ELSE <<x[1], x[2] + 1>>

U32Gt(x, y) == x[1] > y[1] \/ (x[1] = y[1] /\ x[2] > y[2])

U32Ge(x, y) == x = y \/ U32Gt(x, y)

U32Le(x, y) == U32Ge(y, x)

\* u32 + small offset, for building ranges
U32Plus(x, n) ==
    <<(x[1] + ((x[2] + n) \div 65536)) % 65536, (x[2] + n) % 65536>>

\* Ipv4Addr::from(u32): big-endian octets
u32_to_ip(ip) ==
    <<ip[1] \div 256, ip[1] % 256, ip[2] \div 256, ip[2] % 256>>

\* u32::from_be_bytes(ip.octets())
ip_to_u32(ip) == <<ip[1] * 256 + ip[2], ip[3] * 256 + ip[4]>>

V4(octets) == [v |-> "V4", octets |-> octets]
V6 == [v |-> "V6"]
---------------------------------------------------------------------------
(* Strings.                                                                *)

\* str::contains(pat): pat occurs in s as a contiguous run of characters;
\* the empty pattern occurs in every string.
Contains(s, pat) ==
    \E i \in 1..(Len(s) - Len(pat) + 1) : SubSeq(s, i, i + Len(pat) - 1) = pat

RECURSIVE JoinLabels(_)
\* the labels of a name separated by dots
JoinLabels(labels) ==
    IF labels = <<>> THEN <<>>
    ELSE IF Len(labels) = 1 THEN labels[1]
    ELSE labels[1] \o <<".">> \o JoinLabels(Tail(labels))

\* trust_dns Name::to_ascii: the labels joined by dots, and a trailing dot
\* when the name is fully qualified
to_ascii(name) ==
    JoinLabels(name.labels) \o (IF name.is_fqdn THEN <<".">> ELSE <<>>)

---------------------------------------------------------------------------
(* The inputs the environment draws.                                       *)

Name(labels, is_fqdn) == [labels |-> labels, is_fqdn |-> is_fqdn]

\* queried names: four different domains, one of them in both forms
Names ==
    { Name(<< <<"a">> >>, FALSE),
      Name(<< <<"a">>, <<"b">> >>, TRUE),
      Name(<< <<"a">>, <<"b">> >>, FALSE),
      Name(<< <<"b">>, <<"a">> >>, FALSE),
      Name(<< <<"b">> >>, TRUE) }

\* the domain strings generate_fake_response derives from Names
Domains == { <<"a">>, <<"a", ".", "b">>, <<"b", ".", "a">>, <<"b">> }

\* filter entries given to add_filter
FilterSet == { <<"a", ".">>, <<"*">> }

Modes == {"Include", "Exclude"}

Query(name, query_type, query_class) ==
    [name |-> name, query_type |-> query_type, query_class |-> query_class]

Message(id, op_code, rd, cd, queries) ==
    [id |-> id, op_code |-> op_code, recursion_desired |-> rd,
     checking_disabled |-> cd, queries |-> queries]

\* a request is the bytes of a packet: either bytes Message::from_vec
\* rejects, or the encoding of a message
Garbage == [wire |-> "garbage"]
Packet(msg) == [wire |-> "message", msg |-> msg]

\* standard A queries for every name
QueryHeaderRequests ==
    { Packet(Message(1, "Query", TRUE, FALSE, <<Query(n, "A", "IN")>>)) :
        n \in Names }

\* the packets generate_fake_response refuses, an AAAA and an HTTPS query,
\* an UPDATE message with checking disabled, and a message with two questions
OtherRequests ==
    { Garbage,
      Packet(Message(1, "Query", TRUE, FALSE,
                     <<Query(Name(<< <<"a">>, <<"b">> >>, TRUE), "AAAA", "IN")>>)),
      Packet(Message(1, "Query", TRUE, FALSE, <<>>)),
      Packet(Message(1, "Query", TRUE, FALSE,
                     <<Query(Name(<< <<"a">> >>, FALSE), "A", "CH")>>)),
      Packet(Message(1, "Query", TRUE, FALSE,
                     <<Query(Name(<< <<"a">> >>, FALSE), "MX", "IN")>>)),
      Packet(Message(1, "Query", FALSE, TRUE,
                     <<Query(Name(<< <<"a">> >>, FALSE), "HTTPS", "IN")>>)),
      Packet(Message(2, "Update", TRUE, TRUE,
                     <<Query(Name(<< <<"b">> >>, TRUE), "A", "IN")>>)),
      Packet(Message(2, "Query", FALSE, FALSE,
                     <<Query(Name(<< <<"b">>, <<"a">> >>, FALSE), "A", "IN"),
                       Query(Name(<< <<"a">> >>, FALSE), "A", "IN")>>)) }

Requests == QueryHeaderRequests \cup OtherRequests

\* Message::from_vec
from_vec(request) ==
    IF request.wire = "message" THEN Ok(request.msg) ELSE Err("parse")
---------------------------------------------------------------------------
(* FakeDnsImpl. Every function takes the struct as the record s and a      *)
(* &mut self function returns the struct it leaves.                        *)

\* the struct held in the variables
Self ==
    [ip_to_domain |-> ip_to_domain, domain_to_ip |-> domain_to_ip,
     cursor |-> cursor, min_cursor |-> min_cursor, max_cursor |-> max_cursor,
     ttl |-> ttl, filters |-> filters, mode |-> mode]

\* FakeDnsImpl::new, with the last address of the range as a parameter
\* (the program passes 198.18.255.255)
new(m, last_ip) ==
    LET lo == ip_to_u32(<<198, 18, 0, 0>>)
        hi == ip_to_u32(last_ip)
    IN  [ip_to_domain |-> EmptyMap, domain_to_ip |-> EmptyMap,
         cursor |-> lo, min_cursor |-> lo, max_cursor |-> hi,
         ttl |-> 1, filters |-> <<>>, mode |-> m]

\* a variant that forgets the mappings when the policy changes
add_filter_clearing(s, filter) ==
    [s EXCEPT !.filters = Append(@, filter),
              !.ip_to_domain = EmptyMap, !.domain_to_ip = EmptyMap]

add_filter(s, filter) == [s EXCEPT !.filters = Append(@, filter)]

query_domain(s, ip) ==
    IF ip.v = "V4" THEN MapGet(s.ip_to_domain, ip_to_u32(ip.octets)) ELSE None

\* query_fake_ip reading the wrong map: a domain is never a key of
\* ip_to_domain, so nothing is found
query_fake_ip_wrong_map(s, domain) ==
    IF domain \in DOMAIN s.ip_to_domain
    THEN Some(V4(u32_to_ip(s.domain_to_ip[domain])))
    ELSE None

query_fake_ip(s, domain) ==
    LET v == MapGet(s.domain_to_ip, domain)
    IN  IF v.some THEN Some(V4(u32_to_ip(v.val))) ELSE None

\* mutant: the upper bound is exclusive (ip < max_cursor)
is_fake_ip_exclusive(s, ip) ==
    IF ip.v = "V4"
    THEN LET n == ip_to_u32(ip.octets)
         IN  U32Ge(n, s.min_cursor) /\ U32Gt(s.max_cursor, n)
    ELSE FALSE

is_fake_ip(s, ip) ==
    IF ip.v = "V4"
    THEN LET n == ip_to_u32(ip.octets)
         IN  U32Ge(n, s.min_cursor) /\ U32Le(n, s.max_cursor)
    ELSE FALSE

RECURSIVE prepare_steps(_, _, _, _)
\* the loop of prepare_next_cursor with n iterations left: the cursor it
\* leaves and whether it returned Ok
prepare_steps(c, lo, hi, n) ==
    IF n = 0 THEN [ok |-> FALSE, cursor |-> c]
    ELSE LET c1 == U32Inc(c)
             c2 == IF U32Gt(c1, hi) THEN lo ELSE c1
         IN  IF u32_to_ip(c2)[4] \in {0, 255}
             THEN prepare_steps(c2, lo, hi, n - 1)
             ELSE [ok |-> TRUE, cursor |-> c2]

RECURSIVE prepare_steps_no_wrap(_, _, _, _)
\* prepare_steps without the reset to min_cursor
prepare_steps_no_wrap(c, lo, hi, n) ==
    IF n = 0 THEN [ok |-> FALSE, cursor |-> c]
    ELSE LET c1 == U32Inc(c)
         IN  IF u32_to_ip(c1)[4] \in {0, 255}
             THEN prepare_steps_no_wrap(c1, lo, hi, n - 1)
             ELSE [ok |-> TRUE, cursor |-> c1]

\* mutant: the cursor is never reset when it exceeds max_cursor
prepare_next_cursor_no_wrap(s) ==
    prepare_steps_no_wrap(s.cursor, s.min_cursor, s.max_cursor, 3)

\* mutant: the loop runs twice (for _ in 0..2)
prepare_next_cursor_two_steps(s) ==
    prepare_steps(s.cursor, s.min_cursor, s.max_cursor, 2)

prepare_next_cursor(s) ==
    prepare_steps(s.cursor, s.min_cursor, s.max_cursor, 3)

\* mutant: the previous holder of the address keeps its domain_to_ip entry
allocate_ip_keeps_prev(s, domain) ==
    LET prev == MapGet(s.ip_to_domain, s.cursor)
        nxt  == prepare_next_cursor(s)
    IN  [state |-> [s EXCEPT
                      !.ip_to_domain = MapInsert(s.ip_to_domain, s.cursor, domain),
                      !.domain_to_ip = MapInsert(s.domain_to_ip, domain, s.cursor),
                      !.cursor = nxt.cursor],
         ret   |-> IF nxt.ok THEN Ok(u32_to_ip(s.cursor))
                   ELSE Err("unable to prepare next cursor"),
         alloc |-> Some([domain |-> domain, addr |-> s.cursor, evicted |-> prev])]

\* mutant: domain_to_ip is written after the cursor has advanced
allocate_ip_after_advance(s, domain) ==
    LET prev == MapGet(s.ip_to_domain, s.cursor)
        d2i0 == IF prev.some THEN MapRemove(s.domain_to_ip, prev.val)
                ELSE s.domain_to_ip
        nxt  == prepare_next_cursor(s)
    IN  [state |-> [s EXCEPT
                      !.ip_to_domain = MapInsert(s.ip_to_domain, s.cursor, domain),
                      !.domain_to_ip = MapInsert(d2i0, domain, nxt.cursor),
                      !.cursor = nxt.cursor],
         ret   |-> IF nxt.ok THEN Ok(u32_to_ip(s.cursor))
                   ELSE Err("unable to prepare next cursor"),
         alloc |-> Some([domain |-> domain, addr |-> s.cursor, evicted |-> prev])]

\* allocate_ip: the struct it leaves, its result, and what it did (the
\* domain, the address it assigned and the domain it evicted)
allocate_ip(s, domain) ==
    LET prev == MapGet(s.ip_to_domain, s.cursor)
        i2d  == MapInsert(s.ip_to_domain, s.cursor, domain)
        d2i0 == IF prev.some THEN MapRemove(s.domain_to_ip, prev.val)
                ELSE s.domain_to_ip
        d2i  == MapInsert(d2i0, domain, s.cursor)
        ip   == u32_to_ip(s.cursor)
        nxt  == prepare_next_cursor(s)
    IN  [state |-> [s EXCEPT !.ip_to_domain = i2d, !.domain_to_ip = d2i,
                             !.cursor = nxt.cursor],
         ret   |-> IF nxt.ok THEN Ok(ip) ELSE Err("unable to prepare next cursor"),
         alloc |-> Some([domain |-> domain, addr |-> s.cursor, evicted |-> prev])]

RECURSIVE accept_loop(_, _, _)
\* the for loop of accept over the filters still to visit: the first
\* matching entry decides, `hit` is returned for it and ~hit when none matches
accept_loop(fs, domain, hit) ==
    IF fs = <<>> THEN ~hit
    ELSE IF Contains(domain, Head(fs)) \/ Head(fs) = <<"*">> THEN hit
    ELSE accept_loop(Tail(fs), domain, hit)

RECURSIVE accept_loop_no_wildcard(_, _, _)
accept_loop_no_wildcard(fs, domain, hit) ==
    IF fs = <<>> THEN ~hit
    ELSE IF Contains(domain, Head(fs)) THEN hit
    ELSE accept_loop_no_wildcard(Tail(fs), domain, hit)

\* mutant: the wildcard entry is matched as a substring only
accept_no_wildcard(s, domain) ==
    IF s.mode = "Exclude" THEN accept_loop_no_wildcard(s.filters, domain, FALSE)
    ELSE accept_loop_no_wildcard(s.filters, domain, TRUE)

accept(s, domain) ==
    IF s.mode = "Exclude" THEN accept_loop(s.filters, domain, FALSE)
    ELSE accept_loop(s.filters, domain, TRUE)

\* the domain string of a queried name: to_ascii without the trailing dot
domain_of(raw_name) ==
    IF raw_name.is_fqdn
    THEN LET fqdn == to_ascii(raw_name) IN SubSeq(fqdn, 1, Len(fqdn) - 1)
    ELSE to_ascii(raw_name)

\* the response with an A answer whatever the record type asked for
response_answers_all(s, req, query, ip) ==
    [id |-> req.id,
     message_type |-> "Response",
     op_code |-> req.op_code,
     recursion_desired |->
         IF req.op_code = "Query" THEN req.recursion_desired ELSE FALSE,
     checking_disabled |->
         IF req.op_code = "Query" THEN req.checking_disabled ELSE FALSE,
     response_code |-> "NoError",
     queries |-> <<query>>,
     answers |->
         << [name |-> query.name, rr_type |-> "A", ttl |-> s.ttl,
             dns_class |-> "IN", rdata |-> ip] >>]

\* the response with the request's flags copied whatever its opcode
response_flags_always(s, req, query, ip) ==
    [id |-> req.id,
     message_type |-> "Response",
     op_code |-> req.op_code,
     recursion_desired |-> req.recursion_desired,
     checking_disabled |-> req.checking_disabled,
     response_code |-> "NoError",
     queries |-> <<query>>,
     answers |->
         IF query.query_type = "A"
         THEN << [name |-> query.name, rr_type |-> "A", ttl |-> s.ttl,
                  dns_class |-> "IN", rdata |-> ip] >>
         ELSE <<>>]

\* the response message built for a request, a question and an address
response(s, req, query, ip) ==
    [id |-> req.id,
     message_type |-> "Response",
     op_code |-> req.op_code,
     recursion_desired |->
         IF req.op_code = "Query" THEN req.recursion_desired ELSE FALSE,
     checking_disabled |->
         IF req.op_code = "Query" THEN req.checking_disabled ELSE FALSE,
     response_code |-> "NoError",
     queries |-> <<query>>,
     answers |->
         IF query.query_type = "A"
         THEN << [name |-> query.name, rr_type |-> "A", ttl |-> s.ttl,
                  dns_class |-> "IN", rdata |-> ip] >>
         ELSE <<>>]

\* generate_fake_response looking the address up, and allocating it, before
\* it asks accept: a rejected domain fails with its mapping already made
generate_fake_response_alloc_first(s, request) ==
    LET parsed == from_vec(request)
        fail(e) == [state |-> s, ret |-> Err(e), alloc |-> None]
    IN
    IF ~parsed.ok THEN fail("parse")
    ELSE LET req == parsed.val IN
    IF req.queries = <<>> THEN fail("no queries")
    ELSE LET query == req.queries[1] IN
    IF query.query_class # "IN" THEN fail("unsupported query class")
    ELSE IF query.query_type \notin {"A", "AAAA", "HTTPS"}
    THEN fail("unsupported query record type")
    ELSE LET domain == domain_of(query.name)
             found == query_fake_ip(s, domain)
             a == IF found.some
                  THEN [state |-> s, ret |-> Ok(found.val.octets), alloc |-> None]
                  ELSE allocate_ip(s, domain)
         IN
    IF ~accept(s, domain)
    THEN [state |-> a.state, ret |-> Err("not accepted"), alloc |-> a.alloc]
    ELSE IF a.ret.ok
         THEN [state |-> a.state,
               ret   |-> Ok(response(a.state, req, query, a.ret.val)),
               alloc |-> a.alloc]
         ELSE [state |-> a.state, ret |-> a.ret, alloc |-> a.alloc]

\* generate_fake_response: the struct it leaves, its result and the
\* allocation it made, if any
generate_fake_response(s, request) ==
    LET parsed == from_vec(request)
        fail(e) == [state |-> s, ret |-> Err(e), alloc |-> None]
    IN
    IF ~parsed.ok THEN fail("parse")
    ELSE LET req == parsed.val IN
    IF req.queries = <<>> THEN fail("no queries")
    ELSE LET query == req.queries[1] IN
    IF query.query_class # "IN" THEN fail("unsupported query class")
    ELSE IF query.query_type \notin {"A", "AAAA", "HTTPS"}
    THEN fail("unsupported query record type")
    ELSE LET domain == domain_of(query.name) IN
    IF ~accept(s, domain) THEN fail("not accepted")
    ELSE LET found == query_fake_ip(s, domain) IN
    IF found.some
    THEN IF found.val.v = "V4"
         THEN [state |-> s,
               ret   |-> Ok(response(s, req, query, found.val.octets)),
               alloc |-> None]
         ELSE fail("unexpected Ipv6 fake IP")
    ELSE LET a == allocate_ip(s, domain) IN
         IF a.ret.ok
         THEN [state |-> a.state,
               ret   |-> Ok(response(a.state, req, query, a.ret.val)),
               alloc |-> a.alloc]
         ELSE [state |-> a.state, ret |-> a.ret, alloc |-> a.alloc]
---------------------------------------------------------------------------
(* The state machine: one action per method of FakeDns, each method one    *)
(* step. SpecLock below takes the methods apart into the steps they make   *)
(* under the RwLock of FakeDns.                                            *)

\* the struct s becomes the state
Commit(s) ==
    /\ ip_to_domain' = s.ip_to_domain
    /\ domain_to_ip' = s.domain_to_ip
    /\ cursor' = s.cursor
    /\ min_cursor' = s.min_cursor
    /\ max_cursor' = s.max_cursor
    /\ ttl' = s.ttl
    /\ filters' = s.filters
    /\ mode' = s.mode

\* the state holds the struct s
Holds(s) ==
    /\ ip_to_domain = s.ip_to_domain
    /\ domain_to_ip = s.domain_to_ip
    /\ cursor = s.cursor
    /\ min_cursor = s.min_cursor
    /\ max_cursor = s.max_cursor
    /\ ttl = s.ttl
    /\ filters = s.filters
    /\ mode = s.mode

\* the call recorded as the last one; an argument and a returned value
\* are recorded under the name of their type
Call(op, arg, ret, alloc) ==
    /\ last_op' = op
    /\ last_arg' = arg
    /\ last_ret' = ret
    /\ last_alloc' = alloc

\* no call has been made since new
NoCall ==
    /\ last_op = "new"
    /\ last_arg = None
    /\ last_ret = None
    /\ last_alloc = None

\* the first address of the range
FirstIp == <<198, 18, 0, 0>>

\* the address at offset k from the first
IpAt(k) == u32_to_ip(U32Plus(ip_to_u32(FirstIp), k))

\* the addresses callers ask about: the first two of the range, the one
\* after the short range, and an IPv6 address
CallerIps == { V4(IpAt(0)), V4(IpAt(1)), V4(IpAt(RangeLast + 1)), V6 }

\* the tasks that call into the FakeDns
Tasks == {"t1", "t2"}

\* RwLock::new: no writer, no reader
Unlocked == [writer |-> "none", readers |-> {}]

\* a task that is in no call
Idle == [pc |-> "idle"]

\* no task is in a call and the lock is free
NoTask ==
    /\ lock = Unlocked
    /\ task = [t \in Tasks |-> Idle]

\* the tasks that call pick_route
RouteTasks == {"r1", "r2"}

\* Router::new without a configuration: no rules, no resolving, an empty
\* cache; no task is in pick_route
NoRouter ==
    /\ rules = <<>>
    /\ domain_resolve = FALSE
    /\ route_cache = EmptyMap
    /\ route = [t \in RouteTasks |-> Idle]
    /\ router_last = [op |-> "new"]
    /\ returned = EmptyMap

\* no matcher, trie or loading operation has been tried
NoTry == tried = [op |-> "none"]

\* the tasks that call Handler::handle
HandleTasks == {"h1", "h2", "h3"}

\* the Handler as new built it, no task in handle
NoHandler ==
    /\ session = None
    /\ session_guard = "none"
    /\ handle = [t \in HandleTasks |-> [pc |-> "idle", ret |-> None]]
    /\ creations = 0

\* FakeDns::new on the short range
Init ==
    /\ \E m \in Modes :
         Holds(new(m, IpAt(RangeLast)))
    /\ NoCall
    /\ NoTask
    /\ NoRouter
    /\ NoTry
    /\ NoHandler

AddFilter(filter) ==
    /\ Len(filters) < MaxFilters
    /\ Commit(add_filter(Self, filter))
    /\ Call("add_filter", [filter |-> filter], None, None)
    /\ UNCHANGED <<lock, task, routerVars, matchVars, hysteriaVars>>

QueryDomain(ip) ==
    /\ Commit(Self)
    /\ Call("query_domain", [ip |-> ip], [domain |-> query_domain(Self, ip)], None)
    /\ UNCHANGED <<lock, task, routerVars, matchVars, hysteriaVars>>

QueryFakeIp(domain) ==
    /\ Commit(Self)
    /\ Call("query_fake_ip", [domain |-> domain],
            [ip |-> query_fake_ip(Self, domain)], None)
    /\ UNCHANGED <<lock, task, routerVars, matchVars, hysteriaVars>>

IsFakeIp(ip) ==
    /\ Commit(Self)
    /\ Call("is_fake_ip", [ip |-> ip], [bool |-> is_fake_ip(Self, ip)], None)
    /\ UNCHANGED <<lock, task, routerVars, matchVars, hysteriaVars>>

GenerateFakeResponse(request) ==
    LET r == generate_fake_response(Self, request)
    IN  /\ Commit(r.state)
        /\ Call("generate_fake_response", [request |-> request], r.ret, r.alloc)
        /\ UNCHANGED <<lock, task, routerVars, matchVars, hysteriaVars>>

Next ==
    \/ \E filter \in FilterSet : AddFilter(filter)
    \/ \E ip \in CallerIps : QueryDomain(ip)
    \/ \E domain \in Domains : QueryFakeIp(domain)
    \/ \E ip \in CallerIps : IsFakeIp(ip)
    \/ \E request \in Requests : GenerateFakeResponse(request)

Spec == Init /\ [][Next]_vars
---------------------------------------------------------------------------
(* The cursor arithmetic on the program's range 198.18.0.0-198.18.255.255: *)
(* allocate_ip applied once from every position the cursor can rest on.    *)

LastIp == <<198, 18, 255, 255>>

\* the positions the cursor rests on: the first address, where new leaves
\* it, and every address of the range prepare_next_cursor stops at
RestingCursors ==
    LET lo == ip_to_u32(FirstIp)
    IN  {lo} \cup { <<lo[1], l>> : l \in { x \in 0..65535 : x % 256 \notin {0, 255} } }

InitCursor ==
    /\ \E c \in RestingCursors : Holds([new("Exclude", LastIp) EXCEPT !.cursor = c])
    /\ NoCall
    /\ NoTask
    /\ NoRouter
    /\ NoTry
    /\ NoHandler

AllocateIp(domain) ==
    LET r == allocate_ip(Self, domain)
    IN  /\ last_op = "new"
        /\ Commit(r.state)
        /\ Call("allocate_ip", [domain |-> domain], r.ret, r.alloc)
        /\ UNCHANGED <<lock, task, routerVars, matchVars, hysteriaVars>>

NextCursor == \E domain \in {<<"a">>, <<"b">>} : AllocateIp(domain)

SpecCursor == InitCursor /\ [][NextCursor]_vars

---------------------------------------------------------------------------
(* Recycling under a never-ending supply of fresh domains.                 *)

\* a DNS query arrives and is handled
QueryArrives == \E request \in Requests : GenerateFakeResponse(request)

\* the step is a call that allocated an address
FreshAllocation == last_alloc'.some

\* queries keep arriving: the inbound DNS listener hands every packet it
\* receives to generate_fake_response
LiveSpec == Init /\ [][Next]_vars /\ WF_vars(QueryArrives)
---------------------------------------------------------------------------
(* The methods of FakeDns taken apart: a task calls, waits for the RwLock, *)
(* holds it while FakeDnsImpl runs statement by statement, and releases it *)
(* as it returns.                                                          *)

\* the lock a method of FakeDns takes: write() or read()
LockOf_shared(op) == "read"

LockOf(op) ==
    IF op \in {"add_filter", "generate_fake_response"} THEN "write" ELSE "read"

\* what a method of FakeDnsImpl makes of the struct s in one piece
Atomic(op, arg, s) ==
    CASE op = "add_filter" ->
           [state |-> add_filter(s, arg.filter), ret |-> None, alloc |-> None]
      [] op = "query_domain" ->
           [state |-> s, ret |-> [domain |-> query_domain(s, arg.ip)],
            alloc |-> None]
      [] op = "query_fake_ip" ->
           [state |-> s, ret |-> [ip |-> query_fake_ip(s, arg.domain)],
            alloc |-> None]
      [] op = "is_fake_ip" ->
           [state |-> s, ret |-> [bool |-> is_fake_ip(s, arg.ip)],
            alloc |-> None]
      [] op = "generate_fake_response" ->
           generate_fake_response(s, arg.request)

\* the calls the tasks make: the A queries, an unparseable packet, one call
\* of each reading method, one filter
LockCalls ==
    { [op |-> "generate_fake_response", arg |-> [request |-> r]] :
        r \in QueryHeaderRequests \cup {Garbage} }
    \cup { [op |-> "query_domain", arg |-> [ip |-> V4(IpAt(1))]],
           [op |-> "query_fake_ip", arg |-> [domain |-> <<"a">>]],
           [op |-> "is_fake_ip", arg |-> [ip |-> V4(IpAt(1))]],
           [op |-> "add_filter", arg |-> [filter |-> <<"a", ".">>]] }

\* task t goes on as record r
Becomes(t, r) == task' = [task EXCEPT ![t] = r]

\* the guard of task t is dropped
Release(t) ==
    lock' = [writer  |-> IF lock.writer = t THEN "none" ELSE lock.writer,
             readers |-> lock.readers \ {t}]

\* a task calls a method
Invoke(t, c) ==
    /\ task[t].pc = "idle"
    /\ Becomes(t, [pc |-> "waiting", op |-> c.op, arg |-> c.arg])
    /\ UNCHANGED <<ip_to_domain, domain_to_ip, cursor, min_cursor, max_cursor,
                   ttl, filters, mode, last_op, last_arg, last_ret, last_alloc,
                   lock>>
    /\ UNCHANGED <<routerVars, matchVars, hysteriaVars>>

\* self.0.write().await / self.0.read().await: the writer waits for the
\* lock to be free, a reader for it to have no writer
Acquire(t) ==
    /\ task[t].pc = "waiting"
    /\ task[t].op = "add_filter" => Len(filters) < MaxFilters
    /\ IF LockOf(task[t].op) = "write"
       THEN /\ lock = Unlocked
            /\ lock' = [lock EXCEPT !.writer = t]
       ELSE /\ lock.writer = "none"
            /\ lock' = [lock EXCEPT !.readers = @ \cup {t}]
    /\ Becomes(t, [pc |-> "held", op |-> task[t].op, arg |-> task[t].arg,
                   before |-> Self])
    /\ UNCHANGED <<ip_to_domain, domain_to_ip, cursor, min_cursor, max_cursor,
                   ttl, filters, mode, last_op, last_arg, last_ret, last_alloc>>
    /\ UNCHANGED <<routerVars, matchVars, hysteriaVars>>

\* add_filter, query_domain, query_fake_ip, is_fake_ip: the method runs on
\* the struct as it is and the guard is dropped
Finish(t) ==
    /\ task[t].pc = "held"
    /\ task[t].op # "generate_fake_response"
    /\ LET a == Atomic(task[t].op, task[t].arg, Self)
       IN  /\ Commit(a.state)
           /\ Call(task[t].op, task[t].arg, a.ret, a.alloc)
    /\ Release(t)
    /\ Becomes(t, Idle)
    /\ UNCHANGED <<routerVars, matchVars, hysteriaVars>>

\* generate_fake_response up to the lookup (lines 103-152): it returns from
\* there unless it has to allocate
Examine(t) ==
    /\ task[t].pc = "held"
    /\ task[t].op = "generate_fake_response"
    /\ LET r == generate_fake_response(Self, task[t].arg.request)
       IN  IF r.alloc.some
           THEN /\ Becomes(t, [task[t] EXCEPT !.pc = "insert_ip"])
                /\ UNCHANGED <<last_op, last_arg, last_ret, last_alloc, lock>>
           ELSE /\ Call(task[t].op, task[t].arg, r.ret, r.alloc)
                /\ Release(t)
                /\ Becomes(t, Idle)
    /\ UNCHANGED <<ip_to_domain, domain_to_ip, cursor, min_cursor, max_cursor,
                   ttl, filters, mode>>
    /\ UNCHANGED <<routerVars, matchVars, hysteriaVars>>

\* the domain the query of task t asks about
DomainOf(t) == domain_of(task[t].arg.request.msg.queries[1].name)

\* allocate_ip, line 197: self.ip_to_domain.insert(self.cursor, domain)
InsertIp(t) ==
    /\ task[t].pc = "insert_ip"
    /\ ip_to_domain' = MapInsert(ip_to_domain, cursor, DomainOf(t))
    /\ Becomes(t, [pc |-> "remove_prev", op |-> task[t].op, arg |-> task[t].arg,
                   before |-> task[t].before,
                   prev |-> MapGet(ip_to_domain, cursor)])
    /\ UNCHANGED <<domain_to_ip, cursor, min_cursor, max_cursor, ttl, filters,
                   mode, last_op, last_arg, last_ret, last_alloc, lock>>
    /\ UNCHANGED <<routerVars, matchVars, hysteriaVars>>

\* allocate_ip, lines 198-201: self.domain_to_ip.remove(&prev_domain)
RemovePrev(t) ==
    /\ task[t].pc = "remove_prev"
    /\ domain_to_ip' = IF task[t].prev.some
                       THEN MapRemove(domain_to_ip, task[t].prev.val)
                       ELSE domain_to_ip
    /\ Becomes(t, [task[t] EXCEPT !.pc = "insert_domain"])
    /\ UNCHANGED <<ip_to_domain, cursor, min_cursor, max_cursor, ttl, filters,
                   mode, last_op, last_arg, last_ret, last_alloc, lock>>
    /\ UNCHANGED <<routerVars, matchVars, hysteriaVars>>

\* allocate_ip, lines 202-203: self.domain_to_ip.insert(domain, self.cursor)
\* and let ip = Self::u32_to_ip(self.cursor)
InsertDomain(t) ==
    /\ task[t].pc = "insert_domain"
    /\ domain_to_ip' = MapInsert(domain_to_ip, DomainOf(t), cursor)
    /\ Becomes(t, [pc |-> "advance", op |-> task[t].op, arg |-> task[t].arg,
                   before |-> task[t].before, prev |-> task[t].prev,
                   addr |-> cursor])
    /\ UNCHANGED <<ip_to_domain, cursor, min_cursor, max_cursor, ttl, filters,
                   mode, last_op, last_arg, last_ret, last_alloc, lock>>
    /\ UNCHANGED <<routerVars, matchVars, hysteriaVars>>

\* allocate_ip, line 204: self.prepare_next_cursor()
Advance(t) ==
    /\ task[t].pc = "advance"
    /\ cursor' = prepare_next_cursor(Self).cursor
    /\ Becomes(t, [pc |-> "respond", op |-> task[t].op, arg |-> task[t].arg,
                   before |-> task[t].before, prev |-> task[t].prev,
                   addr |-> task[t].addr,
                   advanced |-> prepare_next_cursor(Self).ok])
    /\ UNCHANGED <<ip_to_domain, domain_to_ip, min_cursor, max_cursor, ttl,
                   filters, mode, last_op, last_arg, last_ret, last_alloc, lock>>
    /\ UNCHANGED <<routerVars, matchVars, hysteriaVars>>

\* generate_fake_response, lines 153-185: the error of allocate_ip is passed
\* on, or the response is built; the guard is dropped
Respond(t) ==
    /\ task[t].pc = "respond"
    /\ LET req == task[t].arg.request.msg
           ret == IF task[t].advanced
                  THEN Ok(response(Self, req, req.queries[1],
                                   u32_to_ip(task[t].addr)))
                  ELSE Err("unable to prepare next cursor")
       IN  Call(task[t].op, task[t].arg, ret,
                Some([domain |-> DomainOf(t), addr |-> task[t].addr,
                      evicted |-> task[t].prev]))
    /\ Release(t)
    /\ Becomes(t, Idle)
    /\ UNCHANGED <<ip_to_domain, domain_to_ip, cursor, min_cursor, max_cursor,
                   ttl, filters, mode>>
    /\ UNCHANGED <<routerVars, matchVars, hysteriaVars>>

NextLock ==
    \E t \in Tasks :
        \/ \E c \in LockCalls : Invoke(t, c)
        \/ Acquire(t)
        \/ Finish(t)
        \/ Examine(t)
        \/ InsertIp(t)
        \/ RemovePrev(t)
        \/ InsertDomain(t)
        \/ Advance(t)
        \/ Respond(t)

SpecLock == Init /\ [][NextLock]_vars

---------------------------------------------------------------------------
(* The Router: sessions, the cache key, the conditions of the rules.       *)

RECURSIVE Split(_, _)
\* str::split(sep): the pieces of s between the occurrences of the
\* character sep; a string without sep is its own single piece
Split(s, sep) ==
    IF \A i \in 1..Len(s) : s[i] # sep THEN <<s>>
    ELSE LET i == CHOOSE k \in 1..Len(s) :
                    /\ s[k] = sep
                    /\ \A j \in 1..(k - 1) : s[j] # sep
         IN  <<SubSeq(s, 1, i - 1)>> \o Split(SubSeq(s, i + 1, Len(s)), sep)

\* the last n elements of a sequence, or all of it
LastN(seq, n) ==
    IF Len(seq) <= n THEN seq ELSE SubSeq(seq, Len(seq) - n + 1, Len(seq))

Digit == <<"0", "1", "2", "3", "4", "5", "6", "7", "8", "9">>

RECURSIVE ToDecimal(_)
\* a number written in decimal
ToDecimal(n) ==
    IF n < 10 THEN <<Digit[n + 1]>>
    ELSE ToDecimal(n \div 10) \o <<Digit[(n % 10) + 1]>>

\* IpAddr::to_string of an IPv4 address
ip_to_string(addr) ==
    ToDecimal(addr.octets[1]) \o <<".">> \o ToDecimal(addr.octets[2]) \o <<".">>
        \o ToDecimal(addr.octets[3]) \o <<".">> \o ToDecimal(addr.octets[4])

\* SocksAddr::Domain and SocksAddr::Ip
DomainAddr(name, port) == [kind |-> "Domain", domain |-> name, port |-> port]

IpAddr(addr, port) == [kind |-> "Ip", ip |-> addr, port |-> port]

\* a destination that has neither a domain nor an address
NeitherAddr(port) == [kind |-> "Neither", port |-> port]

\* SocksAddr::is_domain, SocksAddr::domain, SocksAddr::ip
is_domain(destination) == destination.kind = "Domain"

domain_of_dest(destination) ==
    IF destination.kind = "Domain" THEN Some(destination.domain) ELSE None

ip_of_dest(destination) ==
    IF destination.kind = "Ip" THEN Some(destination.ip) ELSE None

Session(destination, network, inbound_tag) ==
    [destination |-> destination, network |-> network,
     inbound_tag |-> inbound_tag]

\* a key for every destination: the empty string where there is neither a
\* domain nor an address
cache_key_always(sess) ==
    IF is_domain(sess.destination)
    THEN Some(JoinLabels(LastN(Split(domain_of_dest(sess.destination).val, "."), 2)))
    ELSE IF ip_of_dest(sess.destination).some
    THEN Some(ip_to_string(ip_of_dest(sess.destination).val))
    ELSE Some(<<>>)

\* cache_key of pick_route: the last two labels of a domain, the string
\* form of an address, and nothing for a destination that is neither
cache_key(sess) ==
    IF is_domain(sess.destination)
    THEN Some(JoinLabels(LastN(Split(domain_of_dest(sess.destination).val, "."), 2)))
    ELSE IF ip_of_dest(sess.destination).some
    THEN Some(ip_to_string(ip_of_dest(sess.destination).val))
    ELSE None

\* s begins with pre
IsPrefix(pre, s) == Len(pre) <= Len(s) /\ SubSeq(s, 1, Len(pre)) = pre

\* the sequence reversed
Rev(seq) == [i \in 1..Len(seq) |-> seq[Len(seq) + 1 - i]]

RECURSIVE Concat(_)
\* the strings of a sequence one after the other
Concat(seq) == IF seq = <<>> THEN <<>> ELSE Head(seq) \o Concat(Tail(seq))

\* SuffixTrie::insert, the nodes: the characters from the root to the node
\* insert marks as an end, the labels of the domain from the last to the
\* first, each followed by a dot
trie_path(name) ==
    Concat([i \in 1..Len(Split(name, ".")) |->
              Rev(Split(name, "."))[i] \o <<".">>])

RECURSIVE current_suffix(_)
\* SuffixTrie::insert, current_suffix after the given labels, taken from
\* the last to the first: a label is put before what there is, after a dot,
\* unless there is nothing yet
current_suffix(parts_rev) ==
    IF parts_rev = <<>> THEN <<>>
    ELSE LET before == current_suffix(SubSeq(parts_rev, 1, Len(parts_rev) - 1))
             part == parts_rev[Len(parts_rev)]
         IN  IF before = <<>> THEN part ELSE part \o <<".">> \o before

\* the suffix insert stores at the end node of a domain
trie_suffix(name) == current_suffix(Rev(Split(name, ".")))

\* SuffixTrie::new and SuffixTrie::insert: the trie as the set of the
\* domains inserted; its nodes are the beginnings of their paths
trie_new == {}

trie_insert(trie, name) == trie \cup {name}

RECURSIVE trie_walk(_, _, _, _)
\* SuffixTrie::matches from the k-th character of the path on: the walk
\* stops where the trie has no child for the character, and after every
\* dot it takes the suffix of the node if the node is an end
trie_walk(trie, path, k, matched_suffix) ==
    IF k > Len(path) THEN matched_suffix
    ELSE IF ~\E d \in trie : IsPrefix(SubSeq(path, 1, k), trie_path(d))
    THEN matched_suffix
    ELSE trie_walk(trie, path, k + 1,
             IF /\ path[k] = "."
                /\ \E d \in trie : trie_path(d) = SubSeq(path, 1, k)
             THEN Some(trie_suffix(CHOOSE d \in trie :
                                       trie_path(d) = SubSeq(path, 1, k)))
             ELSE matched_suffix)

\* a match wherever an inserted domain ends the name, on a label boundary
\* or not; the longest such domain is given
trie_matches_unaligned(trie, name) ==
    LET ends == { d \in trie : Len(d) <= Len(name)
                               /\ SubSeq(name, Len(name) - Len(d) + 1, Len(name)) = d }
    IN  IF ends = {} THEN None
        ELSE Some(CHOOSE d \in ends : \A e \in ends : Len(e) <= Len(d))

\* SuffixTrie::matches
trie_matches(trie, name) == trie_walk(trie, trie_path(name), 1, None)

\* TrieNode::new and TrieNode::insert (trie.rs): the trie keyed by labels,
\* as the set of the nodes insert marks as an end, each the labels of an
\* inserted domain from the last to the first; its nodes are the beginnings
\* of these
trie_node_new == {}

trie_node_insert(node, name) == node \cup {Rev(Split(name, "."))}

\* the walk that asks for an end only where the labels are used up
trie_node_walk_to_end(node, parts, i) == parts \in node

RECURSIVE trie_node_walk(_, _, _)
\* TrieNode::matches, the loop from the i-th label on, current being the
\* node of the labels before it: true at an end, false where the node has
\* no child for the label, and is_end of the node reached after the last
trie_node_walk(node, parts, i) ==
    IF i > Len(parts) THEN parts \in node
    ELSE IF SubSeq(parts, 1, i - 1) \in node THEN TRUE
    ELSE IF ~\E d \in node : IsPrefix(SubSeq(parts, 1, i), d) THEN FALSE
    ELSE trie_node_walk(node, parts, i + 1)

\* TrieNode::matches
trie_node_matches(node, name) == trie_node_walk(node, Rev(Split(name, ".")), 1)

\* DomainMatcher::new: the values sorted by their type into the full set,
\* the suffix trie and the keyword set
DomainMatcher(domains) ==
    [kind |-> "domain",
     full |-> { domains[i].value : i \in { j \in 1..Len(domains) :
                                              domains[j].type = "FULL" } },
     suffix |-> { domains[i].value : i \in { j \in 1..Len(domains) :
                                                domains[j].type = "DOMAIN" } },
     keyword |-> { domains[i].value : i \in { j \in 1..Len(domains) :
                                                 domains[j].type = "PLAIN" } }]

\* the full set and the trie asked, the keywords not
domain_apply_no_keyword(m, sess) ==
    /\ domain_of_dest(sess.destination).some
    /\ LET name == domain_of_dest(sess.destination).val
       IN  \/ name \in m.full
           \/ trie_matches(m.suffix, name).some

\* DomainMatcher::apply
domain_apply(m, sess) ==
    /\ domain_of_dest(sess.destination).some
    /\ LET name == domain_of_dest(sess.destination).val
       IN  \/ name \in m.full
           \/ trie_matches(m.suffix, name).some
           \/ \E k \in m.keyword : Contains(name, k)

\* the text of a CIDR block in the configuration, and a text that is none
CidrText(octets, prefix_len) ==
    [text |-> "cidr", octets |-> octets, prefix_len |-> prefix_len]

BadCidrText == [text |-> "garbage"]

\* str::parse::<IpCidr>
parse_cidr(t) ==
    IF t.text = "cidr"
    THEN Ok([octets |-> t.octets, prefix_len |-> t.prefix_len])
    ELSE Err("parsing cidr failed")

RECURSIVE Pow2(_)
\* two to the power n
Pow2(n) == IF n = 0 THEN 1 ELSE 2 * Pow2(n - 1)

\* IpCidr::contains: the address agrees with the block on the first
\* prefix_len bits
cidr_contains(cidr, addr) ==
    LET a == ip_to_u32(addr.octets)
        c == ip_to_u32(cidr.octets)
        n == cidr.prefix_len
    IN  /\ addr.v = "V4"
        /\ IF n <= 16
           THEN a[1] \div Pow2(16 - n) = c[1] \div Pow2(16 - n)
           ELSE /\ a[1] = c[1]
                /\ a[2] \div Pow2(32 - n) = c[2] \div Pow2(32 - n)

\* IpCidrMatcher::new: the blocks that parse, in their order
IpCidrMatcher(ips) ==
    [kind |-> "ip_cidr",
     values |-> LET parsed == [i \in 1..Len(ips) |-> parse_cidr(ips[i])]
                    good == SelectSeq(parsed, LAMBDA r : r.ok)
                IN  [i \in 1..Len(good) |-> good[i].val]]

\* IpCidrMatcher::apply
ip_cidr_apply(m, sess) ==
    /\ ~is_domain(sess.destination)
    /\ \E i \in 1..Len(m.values) :
         /\ ip_of_dest(sess.destination).some
         /\ cidr_contains(m.values[i], ip_of_dest(sess.destination).val)

UpperCase == <<"A", "B", "C", "D", "E", "F", "G", "H", "I", "J", "K", "L", "M",
               "N", "O", "P", "Q", "R", "S", "T", "U", "V", "W", "X", "Y", "Z">>

LowerCase == <<"a", "b", "c", "d", "e", "f", "g", "h", "i", "j", "k", "l", "m",
               "n", "o", "p", "q", "r", "s", "t", "u", "v", "w", "x", "y", "z">>

\* str::to_lowercase and str::to_uppercase
to_lowercase(str) ==
    [i \in 1..Len(str) |->
       IF \E k \in 1..26 : UpperCase[k] = str[i]
       THEN LowerCase[CHOOSE k \in 1..26 : UpperCase[k] = str[i]]
       ELSE str[i]]

to_uppercase(str) ==
    [i \in 1..Len(str) |->
       IF \E k \in 1..26 : LowerCase[k] = str[i]
       THEN UpperCase[CHOOSE k \in 1..26 : LowerCase[k] = str[i]]
       ELSE str[i]]

\* the GeoIP files that can be opened, and what a lookup in each gives for
\* an address: an error, a record without a country, a country without an
\* ISO code, or a country with its code
GeoFound(iso_code) == [r |-> "country", iso_code |-> Some(iso_code)]

GeoNoIso == [r |-> "country", iso_code |-> None]

GeoNoCountry == [r |-> "no country"]

GeoError == [r |-> "error"]

GeoFiles ==
    [f \in {<<"g">>} |->
       [a \in {<<10, 0, 0, 1>>, <<10, 0, 0, 2>>, <<10, 0, 0, 3>>, <<10, 1, 0, 1>>} |->
          CASE a = <<10, 0, 0, 1>> -> GeoFound(<<"C", "N">>)
            [] a = <<10, 0, 0, 2>> -> GeoNoIso
            [] a = <<10, 0, 0, 3>> -> GeoNoCountry
            [] a = <<10, 1, 0, 1>> -> GeoFound(<<"U", "s">>)]]

\* maxminddb::Reader::lookup::<Country>
geo_lookup(file, addr) ==
    IF addr.v = "V4" /\ addr.octets \in DOMAIN GeoFiles[file]
    THEN GeoFiles[file][addr.octets]
    ELSE GeoError

\* MmdbMatcher::new
MmdbMatcher(reader, country_code) ==
    [kind |-> "mmdb", reader |-> reader, country_code |-> country_code]

\* the codes compared as they are written
mmdb_apply_exact_case(m, sess) ==
    /\ ~is_domain(sess.destination)
    /\ ip_of_dest(sess.destination).some
    /\ LET found == geo_lookup(m.reader, ip_of_dest(sess.destination).val)
       IN  /\ found.r = "country"
           /\ found.iso_code.some
           /\ found.iso_code.val = m.country_code

\* MmdbMatcher::apply
mmdb_apply(m, sess) ==
    /\ ~is_domain(sess.destination)
    /\ ip_of_dest(sess.destination).some
    /\ LET found == geo_lookup(m.reader, ip_of_dest(sess.destination).val)
       IN  /\ found.r = "country"
           /\ found.iso_code.some
           /\ to_lowercase(found.iso_code.val) = to_lowercase(m.country_code)

\* the largest u16
MaxU16 == 65535

RECURSIVE digits_value(_, _)
\* the digits read from the left onto acc; an error where a character is no
\* digit or the number passes the largest u16
digits_value(str, acc) ==
    IF str = <<>> THEN Ok(acc)
    ELSE IF ~\E k \in 1..10 : Digit[k] = Head(str) THEN Err("invalid digit")
    ELSE LET v == acc * 10 + (CHOOSE k \in 1..10 : Digit[k] = Head(str)) - 1
         IN  IF v > MaxU16 THEN Err("number too large")
             ELSE digits_value(Tail(str), v)

\* str::parse::<u16>: digits, after a plus sign or not
parse_u16(str) ==
    LET digits == IF str # <<>> /\ Head(str) = "+" THEN Tail(str) ELSE str
    IN  IF digits = <<>> THEN Err("cannot parse integer from empty string")
        ELSE digits_value(digits, 0)

\* PortRangeMatcher::new
PortRangeMatcher(port_range) ==
    LET parts == Split(port_range, "-")
    IN  IF Len(parts) # 2 THEN Err("invalid port range")
        ELSE IF ~parse_u16(parts[1]).ok THEN Err("invalid port range")
        ELSE IF ~parse_u16(parts[2]).ok THEN Err("invalid port range")
        ELSE IF parse_u16(parts[1]).val > parse_u16(parts[2]).val
        THEN Err("invalid port range")
        ELSE Ok([start |-> parse_u16(parts[1]).val,
                 end |-> parse_u16(parts[2]).val])

\* the range without its upper bound
port_range_apply_below_end(m, sess) ==
    sess.destination.port >= m.start /\ sess.destination.port < m.end

\* PortRangeMatcher::apply
port_range_apply(m, sess) ==
    sess.destination.port >= m.start /\ sess.destination.port <= m.end

\* PortMatcher::new: a ConditionOr of the ranges that parse
PortMatcher(port_ranges) ==
    [kind |-> "port",
     condition |->
       LET made == [i \in 1..Len(port_ranges) |-> PortRangeMatcher(port_ranges[i])]
           good == SelectSeq(made, LAMBDA r : r.ok)
       IN  [i \in 1..Len(good) |-> good[i].val]]

\* ConditionOr::apply over the port ranges, and PortMatcher::apply
port_apply(m, sess) ==
    \E i \in 1..Len(m.condition) : port_range_apply(m.condition[i], sess)

\* NetworkMatcher::new: TCP and UDP, in whatever case, and nothing else
NetworkMatcher(networks) ==
    [kind |-> "network",
     values |->
       LET known == SelectSeq(networks,
                        LAMBDA n : to_uppercase(n) \in {<<"T", "C", "P">>,
                                                        <<"U", "D", "P">>})
       IN  [i \in 1..Len(known) |->
              IF to_uppercase(known[i]) = <<"T", "C", "P">> THEN "Tcp" ELSE "Udp"]]

\* NetworkMatcher::apply
network_apply(m, sess) ==
    \E i \in 1..Len(m.values) : m.values[i] = sess.network

\* InboundTagMatcher::new
InboundTagMatcher(tags) == [kind |-> "inbound_tag", values |-> tags]

\* InboundTagMatcher::apply
inbound_tag_apply(m, sess) ==
    \E i \in 1..Len(m.values) : m.values[i] = sess.inbound_tag

\* Condition::apply of a matcher
matcher_apply(m, sess) ==
    CASE m.kind = "domain" -> domain_apply(m, sess)
      [] m.kind = "ip_cidr" -> ip_cidr_apply(m, sess)
      [] m.kind = "mmdb" -> mmdb_apply(m, sess)
      [] m.kind = "port" -> port_apply(m, sess)
      [] m.kind = "network" -> network_apply(m, sess)
      [] m.kind = "inbound_tag" -> inbound_tag_apply(m, sess)

\* a condition that holds as soon as one of its matchers does
condition_any_apply(conditions, sess) ==
    \E i \in 1..Len(conditions) : matcher_apply(conditions[i], sess)

\* ConditionAnd::apply
condition_and_apply(conditions, sess) ==
    \A i \in 1..Len(conditions) : matcher_apply(conditions[i], sess)

\* Rule::new and Rule::apply
Rule(target, condition) == [target |-> target, condition |-> condition]

rule_apply(rule, sess) == condition_and_apply(rule.condition, sess)

\* config::router::Rule
ConfigRule(tag, doms, cidrs, geo, ports, nets, inbound) ==
    [target_tag |-> tag, domains |-> doms, ip_cidrs |-> cidrs,
     mmdbs |-> geo, port_ranges |-> ports, networks |-> nets,
     inbound_tags |-> inbound]

\* Router::load_rules, the ConditionAnd built for one rule: a matcher for
\* every category that is not empty, and one for every GeoIP entry whose
\* file opens
cond_and(rr) ==
    (IF rr.domains # <<>> THEN <<DomainMatcher(rr.domains)>> ELSE <<>>)
    \o (IF rr.ip_cidrs # <<>> THEN <<IpCidrMatcher(rr.ip_cidrs)>> ELSE <<>>)
    \o (LET opened == SelectSeq(rr.mmdbs, LAMBDA e : e.file \in DOMAIN GeoFiles)
        IN  [i \in 1..Len(opened) |->
               MmdbMatcher(opened[i].file, opened[i].country_code)])
    \o (IF rr.port_ranges # <<>> THEN <<PortMatcher(rr.port_ranges)>> ELSE <<>>)
    \o (IF rr.networks # <<>> THEN <<NetworkMatcher(rr.networks)>> ELSE <<>>)
    \o (IF rr.inbound_tags # <<>> THEN <<InboundTagMatcher(rr.inbound_tags)>>
        ELSE <<>>)

RECURSIVE load_rules(_, _)
\* Router::load_rules: the rules pushed in the order of the configuration,
\* a rule without a matcher left out
load_rules(loaded, routing_rules) ==
    IF routing_rules = <<>> THEN loaded
    ELSE LET rr == Head(routing_rules)
         IN  load_rules(IF cond_and(rr) = <<>> THEN loaded
                        ELSE Append(loaded, Rule(rr.target_tag, cond_and(rr))),
                        Tail(routing_rules))

\* the Router as a struct
Router == [rules |-> rules, domain_resolve |-> domain_resolve,
           route_cache |-> route_cache]

\* Router::new
router_new(router) ==
    [rules |-> IF router.some THEN load_rules(<<>>, router.val.rules) ELSE <<>>,
     domain_resolve |-> IF router.some THEN router.val.domain_resolve ELSE FALSE,
     route_cache |-> EmptyMap]

\* the new rules loaded behind the old ones, which are not cleared
reload_keeps_old(r, router) ==
    [rules |-> IF router.some THEN load_rules(r.rules, router.val.rules)
               ELSE r.rules,
     domain_resolve |-> IF router.some THEN router.val.domain_resolve
                        ELSE r.domain_resolve,
     route_cache |-> r.route_cache]

\* Router::reload
reload(r, router) ==
    [rules |-> IF router.some THEN load_rules(<<>>, router.val.rules) ELSE <<>>,
     domain_resolve |-> IF router.some THEN router.val.domain_resolve
                        ELSE r.domain_resolve,
     route_cache |-> r.route_cache]

\* the position of the last rule that applies, 0 if none does
last_match(rs, sess) ==
    IF \E i \in 1..Len(rs) : rule_apply(rs[i], sess)
    THEN CHOOSE i \in 1..Len(rs) :
             /\ rule_apply(rs[i], sess)
             /\ \A j \in (i + 1)..Len(rs) : ~rule_apply(rs[j], sess)
    ELSE 0

RECURSIVE first_match_from(_, _, _)
\* the for loop of pick_route over the rules from position i on: the
\* position of the rule it returns from, 0 if it runs to the end
first_match_from(rs, sess, i) ==
    IF i > Len(rs) THEN 0
    ELSE IF rule_apply(rs[i], sess) THEN i
    ELSE first_match_from(rs, sess, i + 1)

first_match(rs, sess) == first_match_from(rs, sess, 1)

\* the rules the loop has applied when it is left
applied(rs, sess) ==
    IF first_match(rs, sess) = 0 THEN Len(rs) ELSE first_match(rs, sess)

\* the tag of the shortcut for a destination that is neither domain nor
\* address, in the place of the default
default_target_direct == "Direct"

\* default_target of pick_route: the tag for a session no rule matches
default_target == "trojan_out"

\* a failed lookup taken for an answer without an address
propagate_or_empty(ips) == IF ips.ok THEN ips ELSE Ok(<<>>)

\* the ? after the lookup of pick_route: what the call goes on with; a
\* failure is a failure of the call
propagate(ips) == IF ips.ok THEN Ok(ips.val) ELSE Err("lookup failed")

\* the session as it is, the resolved address put nowhere
new_sess_unresolved(sess, addr) == sess

\* new_sess of pick_route: the session with the resolved address for its
\* destination
new_sess(sess, addr) ==
    [sess EXCEPT !.destination = IpAddr(addr, sess.destination.port)]

---------------------------------------------------------------------------
(* The Router as a state machine: tasks call pick_route side by side, each *)
(* call a step at every access to route_cache and at the DNS lookup;       *)
(* reload has the Router to itself (&mut self).                            *)

\* the sessions routed: two domains of one cache key, a domain no rule
\* names, one address on two ports, and a destination that is neither a
\* domain nor an address
RouteSessions ==
    { Session(DomainAddr(<<"x", ".", "a", ".", "b">>, 80), "Tcp", "in"),
      Session(DomainAddr(<<"a", ".", "b">>, 443), "Tcp", "in"),
      Session(DomainAddr(<<"c">>, 80), "Udp", "in"),
      Session(IpAddr(V4(<<10, 0, 0, 1>>), 80), "Tcp", "in"),
      Session(IpAddr(V4(<<10, 0, 0, 1>>), 22), "Udp", "tun"),
      Session(NeitherAddr(80), "Tcp", "in") }

\* what the DNS client answers: a failure, no address, one address, two
Lookups ==
    { Err("lookup failed"), Ok(<<>>), Ok(<<V4(<<10, 0, 0, 1>>)>>),
      Ok(<<V4(<<192, 0, 2, 1>>), V4(<<10, 0, 0, 1>>)>>) }

\* the configurations loaded: no router section, and two rule lists that
\* share their tags; the second has a rule without matchers, a port range
\* and a CIDR block that do not parse, and a GeoIP file that does not open
RouterConfigs ==
    { None,
      Some([domain_resolve |-> TRUE,
            rules |-> <<
              ConfigRule("T1", <<[type |-> "FULL", value |-> <<"x", ".", "a", ".", "b">>]>>,
                         <<>>, <<>>, <<>>, <<>>, <<>>),
              ConfigRule("T2", <<[type |-> "DOMAIN", value |-> <<"a", ".", "b">>]>>,
                         <<>>, <<>>, <<>>, <<>>, <<>>),
              ConfigRule("T3", <<>>, <<BadCidrText, CidrText(<<10, 0, 0, 0>>, 8)>>,
                         <<>>, <<>>, <<>>, <<>>) >>]),
      Some([domain_resolve |-> FALSE,
            rules |-> <<
              ConfigRule("T2", <<[type |-> "DOMAIN", value |-> <<"a", ".", "b">>]>>,
                         <<>>, <<>>,
                         << <<"x">>, <<"8", "0", "-", "8", "0">> >>,
                         << <<"t", "c", "p">> >>, <<>>),
              ConfigRule("T1", <<[type |-> "FULL", value |-> <<"x", ".", "a", ".", "b">>],
                                 [type |-> "PLAIN", value |-> <<"b">>]>>,
                         <<>>, <<>>, <<>>, <<>>, <<>>),
              ConfigRule("T0", <<>>, <<>>, <<>>, <<>>, <<>>, <<>>),
              ConfigRule("T3", <<>>, <<>>,
                         << [file |-> <<"m">>, country_code |-> <<"u", "s">>],
                            [file |-> <<"g">>, country_code |-> <<"c", "n">>] >>,
                         <<>>, <<>>, <<"tun">>) >>]) }

\* the Router r becomes the state
CommitRouter(r) ==
    /\ rules' = r.rules
    /\ domain_resolve' = r.domain_resolve
    /\ route_cache' = r.route_cache

\* Router::new with a configuration; the FakeDns stands by
InitRouter ==
    /\ \E router \in RouterConfigs :
         /\ rules = router_new(router).rules
         /\ domain_resolve = router_new(router).domain_resolve
         /\ route_cache = router_new(router).route_cache
    /\ route = [t \in RouteTasks |-> Idle]
    /\ router_last = [op |-> "new"]
    /\ returned = EmptyMap
    /\ Holds(new("Exclude", LastIp))
    /\ NoCall
    /\ NoTask
    /\ NoTry
    /\ NoHandler

\* Router::reload; no task is in pick_route, which borrows the Router
Reload(router) ==
    /\ \A t \in RouteTasks : route[t].pc = "idle"
    /\ CommitRouter(reload(Router, router))
    /\ router_last' = [op |-> "reload"]
    /\ returned' = EmptyMap
    /\ UNCHANGED <<route, fakeDnsVars, matchVars, hysteriaVars>>

\* pick_route returns ret from task t, having applied rules n more times
\* and got the answer ips from the DNS client, if it asked
Returns(t, ret, n, ips) ==
    /\ router_last' = [op |-> "pick_route", ret |-> ret,
                       applied |-> route[t].applied + n, ips |-> ips]
    /\ returned' =
         IF ret.ok
         THEN MapInsert(returned, route[t].key,
                        (IF route[t].key \in DOMAIN returned
                         THEN returned[route[t].key] ELSE {}) \cup {ret.val})
         ELSE returned
    /\ route' = [route EXCEPT ![t] = Idle]

\* pick_route, lines 548-564: the cache key; a destination that is neither
\* a domain nor an address gets "Direct" at once
PickRoute(t, sess) ==
    /\ route[t].pc = "idle"
    /\ IF cache_key(sess).some
       THEN /\ route' = [route EXCEPT ![t] =
                           [pc |-> "cache", sess |-> sess,
                            key |-> cache_key(sess).val, applied |-> 0,
                            ips |-> None,
                            known |-> IF cache_key(sess).val \in DOMAIN returned
                                      THEN returned[cache_key(sess).val]
                                      ELSE {}]]
            /\ UNCHANGED <<router_last, returned>>
       ELSE /\ router_last' = [op |-> "pick_route", ret |-> Ok("Direct"),
                               applied |-> 0, ips |-> None, sess |-> sess]
            /\ UNCHANGED <<route, returned>>
    /\ UNCHANGED <<rules, domain_resolve, route_cache, fakeDnsVars, matchVars, hysteriaVars>>

\* pick_route, lines 566-569: the cached tag is returned if there is one
CacheLookup(t) ==
    /\ route[t].pc = "cache"
    /\ IF MapGet(route_cache, route[t].key).some
       THEN Returns(t, Ok(route_cache[route[t].key]), 0, None)
       ELSE /\ route' = [route EXCEPT ![t].pc = "rules"]
            /\ UNCHANGED <<router_last, returned>>
    /\ UNCHANGED <<rules, domain_resolve, route_cache, fakeDnsVars, matchVars, hysteriaVars>>

\* a variant that asks the DNS client for every domain
wants_lookup_any_domain(sess, resolve) == is_domain(sess.destination)

\* pick_route, line 618: the DNS client is asked for a domain when
\* domain_resolve is set
wants_lookup(sess, resolve) == is_domain(sess.destination) /\ resolve

\* pick_route, lines 573-618: the rules in order; the target of the first
\* that applies is cached and returned
MatchRules(t) ==
    /\ route[t].pc = "rules"
    /\ LET sess == route[t].sess
           i == first_match(rules, sess)
       IN  IF i # 0
           THEN /\ route_cache' = MapInsert(route_cache, route[t].key,
                                            rules[i].target)
                /\ Returns(t, Ok(rules[i].target), applied(rules, sess), None)
           ELSE /\ route' = [route EXCEPT
                      ![t].pc = IF wants_lookup(sess, domain_resolve)
                                THEN "resolve" ELSE "default",
                      ![t].applied = @ + applied(rules, sess)]
                /\ UNCHANGED <<route_cache, router_last, returned>>
    /\ UNCHANGED <<rules, domain_resolve, fakeDnsVars, matchVars, hysteriaVars>>

\* pick_route, lines 619-651: the answer of the DNS client arrives; a
\* failure is returned, the first address is matched against the rules
Resolve(t, ips) ==
    /\ route[t].pc = "resolve"
    /\ IF ~propagate(ips).ok
       THEN /\ Returns(t, propagate(ips), 0, Some(ips))
            /\ UNCHANGED route_cache
       ELSE LET got == propagate(ips).val
                rematch == new_sess(route[t].sess, got[1])
                i == IF got = <<>> THEN 0 ELSE first_match(rules, rematch)
            IN  IF i # 0
                THEN /\ route_cache' = MapInsert(route_cache, route[t].key,
                                                 rules[i].target)
                     /\ Returns(t, Ok(rules[i].target), applied(rules, rematch),
                                Some(ips))
                ELSE /\ route' = [route EXCEPT
                           ![t].pc = "default",
                           ![t].ips = Some(ips),
                           ![t].applied = @ + (IF got = <<>> THEN 0
                                               ELSE applied(rules, rematch))]
                     /\ UNCHANGED <<route_cache, router_last, returned>>
    /\ UNCHANGED <<rules, domain_resolve, fakeDnsVars, matchVars, hysteriaVars>>

\* pick_route, lines 653-660: the default tag is cached and returned
Default(t) ==
    /\ route[t].pc = "default"
    /\ route_cache' = MapInsert(route_cache, route[t].key, default_target)
    /\ Returns(t, Ok(default_target), 0, route[t].ips)
    /\ UNCHANGED <<rules, domain_resolve, fakeDnsVars, matchVars, hysteriaVars>>

NextRouter ==
    \/ \E router \in RouterConfigs : Reload(router)
    \/ \E t \in RouteTasks :
         \/ \E sess \in RouteSessions : PickRoute(t, sess)
         \/ CacheLookup(t)
         \/ MatchRules(t)
         \/ \E ips \in Lookups : Resolve(t, ips)
         \/ Default(t)

SpecRouter == InitRouter /\ [][NextRouter]_vars

---------------------------------------------------------------------------
(* pick_route with the lock of route_cache taken and dropped in steps of   *)
(* their own: route_cache is an RwLock, read at line 566 and written at    *)
(* lines 610, 643 and 656, every guard a temporary of its statement.       *)

\* the guard task t holds on route_cache
Guard(t) == IF route[t].pc = "idle" THEN "none" ELSE route[t].guard

\* RwLock::read goes through while no task holds the write guard
can_read(t) == \A u \in RouteTasks : Guard(u) # "write"

\* RwLock::write goes through while no task holds a guard
can_write(t) == \A u \in RouteTasks : Guard(u) = "none"

\* a variant in which the guard outlives its statement
keep_temporary(held) == held

\* the guard is a temporary of the statement that took it (566-569, 610-613,
\* 643-646, 656-659) and is dropped where the statement ends
drop_temporary(held) == "none"

\* pick_route, lines 548-564: as PickRoute, the call holding no guard
EnterPickRoute(t, sess) ==
    /\ route[t].pc = "idle"
    /\ IF cache_key(sess).some
       THEN /\ route' = [route EXCEPT ![t] =
                           [pc |-> "cache", sess |-> sess,
                            key |-> cache_key(sess).val, applied |-> 0,
                            ips |-> None, known |-> {}, guard |-> "none",
                            target |-> default_target]]
            /\ UNCHANGED <<router_last, returned>>
       ELSE /\ router_last' = [op |-> "pick_route", ret |-> Ok("Direct"),
                               applied |-> 0, ips |-> None, sess |-> sess]
            /\ UNCHANGED <<route, returned>>
    /\ UNCHANGED <<rules, domain_resolve, route_cache, fakeDnsVars, matchVars, hysteriaVars>>

\* pick_route, line 566: route_cache.read() returns its guard
ReadCache(t) ==
    /\ route[t].pc = "cache"
    /\ can_read(t)
    /\ route' = [route EXCEPT ![t].pc = "reading", ![t].guard = "read"]
    /\ UNCHANGED <<rules, domain_resolve, route_cache, router_last, returned,
                   fakeDnsVars, matchVars, hysteriaVars>>

\* pick_route, lines 566-569: get under the guard; the cached tag is
\* returned, or the if let ends and with it the guard
GetCached(t) ==
    /\ route[t].pc = "reading"
    /\ IF MapGet(route_cache, route[t].key).some
       THEN Returns(t, Ok(route_cache[route[t].key]), 0, None)
       ELSE /\ route' = [route EXCEPT ![t].pc = "rules",
                                      ![t].guard = drop_temporary(@)]
            /\ UNCHANGED <<router_last, returned>>
    /\ UNCHANGED <<rules, domain_resolve, route_cache, fakeDnsVars, matchVars, hysteriaVars>>

\* pick_route, lines 573-618: the rules in order; the target of the first
\* that applies is to be cached, or the DNS client is asked, or the default
\* tag is to be cached
ApplyRules(t) ==
    /\ route[t].pc = "rules"
    /\ LET sess == route[t].sess
           i == first_match(rules, sess)
       IN  route' = [route EXCEPT
                       ![t].pc = IF i = 0 /\ wants_lookup(sess, domain_resolve)
                                 THEN "resolve" ELSE "insert",
                       ![t].target = IF i # 0 THEN rules[i].target
                                     ELSE default_target]
    /\ UNCHANGED <<rules, domain_resolve, route_cache, router_last, returned,
                   fakeDnsVars, matchVars, hysteriaVars>>

\* pick_route, lines 619-651: the answer of the DNS client arrives; a
\* failure is returned, the first address is matched against the rules
Lookup(t, ips) ==
    /\ route[t].pc = "resolve"
    /\ IF ~propagate(ips).ok
       THEN Returns(t, propagate(ips), 0, Some(ips))
       ELSE LET got == propagate(ips).val
                i == IF got = <<>> THEN 0
                     ELSE first_match(rules, new_sess(route[t].sess, got[1]))
            IN  /\ route' = [route EXCEPT
                               ![t].pc = "insert",
                               ![t].ips = Some(ips),
                               ![t].target = IF i # 0 THEN rules[i].target
                                             ELSE default_target]
                /\ UNCHANGED <<router_last, returned>>
    /\ UNCHANGED <<rules, domain_resolve, route_cache, fakeDnsVars, matchVars, hysteriaVars>>

\* pick_route, lines 610, 643 and 656: route_cache.write() returns its guard
WriteCache(t) ==
    /\ route[t].pc = "insert"
    /\ can_write(t)
    /\ route' = [route EXCEPT ![t].pc = "writing", ![t].guard = "write"]
    /\ UNCHANGED <<rules, domain_resolve, route_cache, router_last, returned,
                   fakeDnsVars, matchVars, hysteriaVars>>

\* pick_route, lines 610-614, 643-647 and 656-660: insert under the guard;
\* the statement ends and the tag is returned
InsertCached(t) ==
    /\ route[t].pc = "writing"
    /\ route_cache' = MapInsert(route_cache, route[t].key, route[t].target)
    /\ Returns(t, Ok(route[t].target), 0, route[t].ips)
    /\ UNCHANGED <<rules, domain_resolve, fakeDnsVars, matchVars, hysteriaVars>>

NextCache ==
    \E t \in RouteTasks :
      \/ \E sess \in RouteSessions : EnterPickRoute(t, sess)
      \/ ReadCache(t)
      \/ GetCached(t)
      \/ ApplyRules(t)
      \/ \E ips \in Lookups : Lookup(t, ips)
      \/ WriteCache(t)
      \/ InsertCached(t)

SpecCache == InitRouter /\ [][NextCache]_vars

---------------------------------------------------------------------------
(* config/domain_rule.rs: the registrable part of a domain.                *)

\* SPECIAL_SUFFIXES of get_registrable_domain
SPECIAL_SUFFIXES ==
    { <<"c", "o", "m", ".", "c", "n">>,
      <<"n", "e", "t", ".", "c", "n">>,
      <<"o", "r", "g", ".", "c", "n">>,
      <<"g", "o", "v", ".", "c", "n">>,
      <<"e", "d", "u", ".", "c", "n">>,
      <<"m", "i", "l", ".", "c", "n">>,
      <<"a", "c", ".", "c", "n">>,
      <<"a", "h", ".", "c", "n">>,
      <<"b", "j", ".", "c", "n">>,
      <<"s", "h", ".", "c", "n">>,
      <<"t", "j", ".", "c", "n">>,
      <<"h", "z", ".", "c", "n">>,
      <<"c", "o", ".", "u", "k">>,
      <<"c", "o", ".", "j", "p">> }

\* COMMON_SUFFIXES of get_registrable_domain
COMMON_SUFFIXES ==
    { <<"c", "n">>,
      <<"c", "o", "m">>,
      <<"n", "e", "t">>,
      <<"o", "r", "g">>,
      <<"e", "d", "u">>,
      <<"g", "o", "v">>,
      <<"m", "i", "l">>,
      <<"b", "i", "z">>,
      <<"i", "n", "f", "o">>,
      <<"p", "r", "o">>,
      <<"n", "a", "m", "e">>,
      <<"x", "y", "z">> }

\* str::starts_with
starts_with(str, pre) == Len(pre) <= Len(str) /\ SubSeq(str, 1, Len(pre)) = pre

\* get_registrable_domain, lines 25-30: a leading www. is cut off
strip_www(name) ==
    IF starts_with(name, <<"w", "w", "w", ".">>) THEN SubSeq(name, 5, Len(name))
    ELSE name

\* DomainRule::get_registrable_domain
get_registrable_domain(name) ==
    LET stripped == strip_www(name)
        parts == Split(stripped, ".")
        n == Len(parts)
    IN  IF n < 2 THEN stripped
        ELSE IF n >= 3 /\ JoinLabels(SubSeq(parts, n - 1, n)) \in SPECIAL_SUFFIXES
        THEN IF n = 3 THEN stripped
             ELSE parts[n - 2] \o <<".">> \o JoinLabels(SubSeq(parts, n - 1, n))
        ELSE IF parts[n] \in COMMON_SUFFIXES
        THEN IF n = 2 THEN stripped
             ELSE parts[n - 1] \o <<".">> \o parts[n]
        ELSE stripped

---------------------------------------------------------------------------
(* The matchers, the trie and the loading of rules, each tried on its own  *)
(* on inputs drawn from small sets.                                        *)

\* the longest list of entries a matcher or a trie is built from
MaxEntries == 2

RECURSIVE SeqsUpTo(_, _)
\* the sequences of at most n elements of S
SeqsUpTo(S, n) ==
    IF n = 0 THEN {<<>>}
    ELSE LET shorter == SeqsUpTo(S, n - 1)
         IN  shorter \cup { Append(q, x) : q \in shorter, x \in S }

\* the domain entries of a rule: a type and a value
DomainEntries ==
    { [type |-> "FULL", value |-> <<"x", ".", "a", ".", "b">>],
      [type |-> "FULL", value |-> <<"c">>],
      [type |-> "DOMAIN", value |-> <<"a", ".", "b">>],
      [type |-> "DOMAIN", value |-> <<"b">>],
      [type |-> "PLAIN", value |-> <<"a", ".">>],
      [type |-> "PLAIN", value |-> <<>>] }

\* the destinations the matchers are tried on: domains, addresses in and
\* out of the blocks and with and without a country, and neither
MatchDestinations ==
    { DomainAddr(<<"x", ".", "a", ".", "b">>, 80),
      DomainAddr(<<"a", ".", "b">>, 80),
      DomainAddr(<<"x", "a", ".", "b">>, 80),
      DomainAddr(<<"b", ".", "c">>, 80),
      DomainAddr(<<"c">>, 80),
      DomainAddr(<<"1", "0", ".", "0", ".", "0", ".", "1">>, 80),
      IpAddr(V4(<<10, 0, 0, 1>>), 80),
      IpAddr(V4(<<10, 0, 0, 2>>), 80),
      IpAddr(V4(<<10, 0, 0, 3>>), 80),
      IpAddr(V4(<<10, 1, 0, 1>>), 80),
      IpAddr(V4(<<192, 0, 2, 1>>), 80),
      IpAddr(V6, 80),
      NeitherAddr(80) }

MatchSessions == { Session(d, "Tcp", "in") : d \in MatchDestinations }

\* nothing has been tried; every operation is tried from here
InitMatch ==
    /\ Holds(new("Exclude", LastIp))
    /\ NoCall
    /\ NoTask
    /\ NoRouter
    /\ NoTry
    /\ NoHandler

\* DomainMatcher::new and DomainMatcher::apply
TryDomain(domains, sess) ==
    /\ NoTry
    /\ tried' = [op |-> "domain", domains |-> domains, sess |-> sess,
                 ret |-> domain_apply(DomainMatcher(domains), sess)]
    /\ UNCHANGED <<fakeDnsVars, routerVars, hysteriaVars>>

\* the CIDR blocks of a rule as written: one that does not parse, and
\* blocks of several lengths
CidrEntries ==
    { BadCidrText, CidrText(<<10, 0, 0, 0>>, 8), CidrText(<<10, 0, 0, 2>>, 31),
      CidrText(<<192, 0, 2, 0>>, 24), CidrText(<<0, 0, 0, 0>>, 0),
      CidrText(<<10, 0, 0, 1>>, 32) }

\* the country codes of a rule as written
CountryCodes ==
    { <<"c", "n">>, <<"C", "N">>, <<"c", "N">>, <<"u", "s">>, <<"c">>, <<>> }

\* IpCidrMatcher::new and IpCidrMatcher::apply
TryCidr(ips, sess) ==
    /\ NoTry
    /\ tried' = [op |-> "ip_cidr", ips |-> ips, sess |-> sess,
                 ret |-> ip_cidr_apply(IpCidrMatcher(ips), sess)]
    /\ UNCHANGED <<fakeDnsVars, routerVars, hysteriaVars>>

\* MmdbMatcher::new and MmdbMatcher::apply on a file that opens
TryMmdb(file, country_code, sess) ==
    /\ NoTry
    /\ tried' = [op |-> "mmdb", file |-> file, country_code |-> country_code,
                 sess |-> sess,
                 ret |-> mmdb_apply(MmdbMatcher(file, country_code), sess)]
    /\ UNCHANGED <<fakeDnsVars, routerVars, hysteriaVars>>

\* the port ranges of a rule as written: 80-80, 1-2 and 0-65535, with plus
\* signs +79-+81, and 2-1, 80, 1-2-3, -5, 79-, x-80 and 1-65536
PortRangeEntries ==
    { <<"8", "0", "-", "8", "0">>, <<"1", "-", "2">>,
      <<"0", "-", "6", "5", "5", "3", "5">>,
      <<"+", "7", "9", "-", "+", "8", "1">>,
      <<"2", "-", "1">>, <<"8", "0">>, <<"1", "-", "2", "-", "3">>,
      <<"-", "5">>, <<"7", "9", "-">>, <<"x", "-", "8", "0">>,
      <<"1", "-", "6", "5", "5", "3", "6">> }

\* the destination ports tried
MatchPorts == {0, 1, 2, 3, 79, 80, 81, MaxU16}

\* PortMatcher::new and PortMatcher::apply
TryPort(port_ranges, port) ==
    /\ NoTry
    /\ tried' = [op |-> "port", port_ranges |-> port_ranges, port |-> port,
                 made |-> PortMatcher(port_ranges).condition,
                 ret |-> port_apply(PortMatcher(port_ranges),
                                    Session(DomainAddr(<<"a", ".", "b">>, port),
                                            "Tcp", "in"))]
    /\ UNCHANGED <<fakeDnsVars, routerVars, hysteriaVars>>

\* the domains inserted into a trie: one label, two labels, three, a
\* domain written with its final dot, and the empty string
TrieEntries ==
    { <<"b">>, <<"a", ".", "b">>, <<"x", ".", "a", ".", "b">>,
      <<"q", ".", "b">>, <<"a">>, <<"b", ".">>, <<>> }

\* the domains looked up in a trie
TrieDomains ==
    { <<"x", ".", "a", ".", "b">>, <<"a", ".", "b">>, <<"x", "a", ".", "b">>,
      <<"b">>, <<"a", "b">>, <<"a", ".", "b", ".", "c">>, <<"x", ".", "a">>,
      <<"m", "y", "q", ".", "b">>, <<"w", ".", "q", ".", "b">>,
      <<"x", ".", ".", "b">>, <<"a", ".">>, <<"a", ".", "b", ".">>, <<>> }

RECURSIVE trie_build(_)
\* the trie after the domains of a list have been inserted into a new one
trie_build(inserted) ==
    IF inserted = <<>> THEN trie_new
    ELSE trie_insert(trie_build(SubSeq(inserted, 1, Len(inserted) - 1)),
                     inserted[Len(inserted)])

\* SuffixTrie::new, SuffixTrie::insert for every domain of the list, and
\* SuffixTrie::matches
TryTrie(inserted, name) ==
    /\ NoTry
    /\ tried' = [op |-> "trie", inserted |-> inserted, name |-> name,
                 ret |-> trie_matches(trie_build(inserted), name)]
    /\ UNCHANGED <<fakeDnsVars, routerVars, hysteriaVars>>

\* the domains reduced: those of test_get_registrable_domain with short
\* labels, a final dot, an empty label, the empty string, and domains whose
\* first label is www
RegistrableInputs ==
    { <<"w", "w", "w", ".", "e", ".", "c", "o", "m", ".", "c", "n">>,
      <<"s", ".", "e", ".", "c", "o", "m", ".", "c", "n">>,
      <<"w", "w", "w", ".", "d", ".", "e", "d", "u", ".", "c", "n">>,
      <<"w", "w", "w", ".", "e", ".", "c", "o", "m">>,
      <<"s", ".", "e", ".", "c", "o", "m">>,
      <<"e", ".", "c", "n">>,
      <<"t", ".", "s", ".", "e", ".", "n", "e", "t">>,
      <<"w", "w", "w", ".", "e", ".", "c", "o", ".", "u", "k">>,
      <<"s", ".", "e", ".", "c", "o", ".", "u", "k">>,
      <<"e", ".", "z", "z">>,
      <<"s", ".", "e", ".", "z", "z">>,
      <<"e">>,
      <<"c", "o", "m", ".", "c", "n">>,
      <<"c", "o", ".", "u", "k">>,
      <<"c", "n">>,
      <<>>,
      <<"e", ".", "c", "o", "m", ".">>,
      <<"s", ".", ".", "c", "o", "m">>,
      <<"w", "w", "w", ".", "c", "o", "m">>,
      <<"w", "w", "w", ".", "c", "n">>,
      <<"w", "w", "w", ".", "c", "o", "m", ".", "c", "n">>,
      <<"w", "w", "w", ".", "e", ".", "z", "z">>,
      <<"w", "w", "w", ".", "z", "z">>,
      <<"w", "w", "w", ".">>,
      <<"w", "w", "w">>,
      <<"w", "w", "w", "w", ".", "e", ".", "c", "o", "m">>,
      <<"s", ".", "w", "w", "w", ".", "e", ".", "z", "z">> }

\* DomainRule::get_registrable_domain
TryRegistrable(name) ==
    /\ NoTry
    /\ tried' = [op |-> "registrable", name |-> name,
                 ret |-> get_registrable_domain(name)]
    /\ UNCHANGED <<fakeDnsVars, routerVars, hysteriaVars>>

RECURSIVE trie_node_build(_)
\* the label trie after the domains of a list have been inserted
trie_node_build(inserted) ==
    IF inserted = <<>> THEN trie_node_new
    ELSE trie_node_insert(trie_node_build(SubSeq(inserted, 1, Len(inserted) - 1)),
                          inserted[Len(inserted)])

\* the same domains inserted into a TrieNode and into a SuffixTrie, and
\* matches of both for one domain
TryTrieNode(inserted, name) ==
    /\ NoTry
    /\ tried' = [op |-> "trie_node", inserted |-> inserted, name |-> name,
                 ret |-> trie_node_matches(trie_node_build(inserted), name),
                 suffix |-> trie_matches(trie_build(inserted), name)]
    /\ UNCHANGED <<fakeDnsVars, routerVars, hysteriaVars>>

\* the rules of a configuration: one with a domain, one with nothing, one
\* with an inbound tag, and rules whose only entries are a port range that
\* does not parse, a CIDR block that does not parse, a network that is
\* none, a GeoIP file that does not open, and two GeoIP files of which one
\* opens
ConfigRules ==
    { ConfigRule("T1", <<[type |-> "FULL", value |-> <<"a", ".", "b">>]>>,
                 <<>>, <<>>, <<>>, <<>>, <<>>),
      ConfigRule("T0", <<>>, <<>>, <<>>, <<>>, <<>>, <<>>),
      ConfigRule("T2", <<>>, <<>>, <<>>, <<>>, <<>>, <<"tun">>),
      ConfigRule("T3", <<>>, <<>>, <<>>, << <<"x">> >>, <<>>, <<>>),
      ConfigRule("T4", <<>>, <<BadCidrText>>, <<>>, <<>>, <<>>, <<>>),
      ConfigRule("T5", <<>>, <<>>, <<>>, <<>>, << <<"i", "c", "m", "p">> >>, <<>>),
      ConfigRule("T6", <<>>, <<>>,
                 << [file |-> <<"m">>, country_code |-> <<"u", "s">>] >>,
                 <<>>, <<>>, <<>>),
      ConfigRule("T7", <<>>, <<>>,
                 << [file |-> <<"m">>, country_code |-> <<"u", "s">>],
                    [file |-> <<"g">>, country_code |-> <<"c", "n">>] >>,
                 <<>>, <<>>, <<>>) }

\* Router::load_rules into an empty list
TryLoad(routing_rules) ==
    /\ NoTry
    /\ tried' = [op |-> "load", routing_rules |-> routing_rules,
                 ret |-> load_rules(<<>>, routing_rules)]
    /\ UNCHANGED <<fakeDnsVars, routerVars, hysteriaVars>>

\* rules with matchers of more than one category: a domain matcher with a
\* CIDR matcher, with a GeoIP matcher of a file that opens and of one that
\* does not, with an inbound tag, and a CIDR matcher with a GeoIP matcher
MixedRules ==
    { ConfigRule("T1", <<[type |-> "DOMAIN", value |-> <<"a", ".", "b">>],
                        [type |-> "PLAIN", value |-> <<"0">>]>>,
                 <<CidrText(<<10, 0, 0, 0>>, 8)>>, <<>>, <<>>, <<>>, <<>>),
      ConfigRule("T2", <<[type |-> "PLAIN", value |-> <<>>]>>,
                 <<CidrText(<<0, 0, 0, 0>>, 0)>>, <<>>, <<>>, <<>>, <<>>),
      ConfigRule("T3", <<[type |-> "PLAIN", value |-> <<>>]>>, <<>>,
                 << [file |-> <<"g">>, country_code |-> <<"c", "n">>] >>,
                 <<>>, <<>>, <<>>),
      ConfigRule("T4", <<[type |-> "PLAIN", value |-> <<>>]>>, <<>>,
                 << [file |-> <<"m">>, country_code |-> <<"c", "n">>] >>,
                 <<>>, <<>>, <<>>),
      ConfigRule("T5", <<[type |-> "PLAIN", value |-> <<>>]>>,
                 <<>>, <<>>, <<>>, <<>>, <<"in">>),
      ConfigRule("T6", <<>>, <<CidrText(<<10, 0, 0, 0>>, 8)>>,
                 << [file |-> <<"g">>, country_code |-> <<"c", "n">>] >>,
                 <<>>, <<>>, <<>>) }

\* the addresses the DNS client may have answered with
ResolvedAddrs == { V4(<<10, 0, 0, 1>>), V4(<<192, 0, 2, 1>>), V6 }

\* Router::load_rules of one rule, and the rule loop of pick_route on the
\* session as given and on the session with a resolved address
TryRule(rr, sess, addr) ==
    /\ NoTry
    /\ tried' = [op |-> "rule", rr |-> rr, sess |-> sess, addr |-> addr,
                 loaded |-> load_rules(<<>>, <<rr>>),
                 matched |-> first_match(load_rules(<<>>, <<rr>>), sess),
                 rematched |-> first_match(load_rules(<<>>, <<rr>>),
                                           new_sess(sess, addr))]
    /\ UNCHANGED <<fakeDnsVars, routerVars, hysteriaVars>>

NextMatch ==
    \/ \E domains \in SeqsUpTo(DomainEntries, MaxEntries) :
         \E sess \in MatchSessions : TryDomain(domains, sess)
    \/ \E ips \in SeqsUpTo(CidrEntries, MaxEntries) :
         \E sess \in MatchSessions : TryCidr(ips, sess)
    \/ \E file \in DOMAIN GeoFiles : \E country_code \in CountryCodes :
         \E sess \in MatchSessions : TryMmdb(file, country_code, sess)
    \/ \E port_ranges \in SeqsUpTo(PortRangeEntries, MaxEntries) :
         \E port \in MatchPorts : TryPort(port_ranges, port)
    \/ \E inserted \in SeqsUpTo(TrieEntries, MaxEntries) :
         \E name \in TrieDomains : TryTrie(inserted, name)
    \/ \E routing_rules \in SeqsUpTo(ConfigRules, MaxEntries) :
         TryLoad(routing_rules)
    \/ \E inserted \in SeqsUpTo(TrieEntries, MaxEntries) :
         \E name \in TrieDomains : TryTrieNode(inserted, name)
    \/ \E name \in RegistrableInputs : TryRegistrable(name)
    \/ \E rr \in MixedRules : \E sess \in MatchSessions :
         \E addr \in ResolvedAddrs : TryRule(rr, sess, addr)

SpecMatch == InitMatch /\ [][NextMatch]_vars

---------------------------------------------------------------------------
(* proxy/hysteria/datagram.rs: Handler::handle called by several tasks     *)
(* side by side, a step at the lock of the Mutex, at the test of the       *)
(* stored session and at the answer of the client.                         *)

\* how many sessions the client hands out at most
MaxCreations == 2

\* the destinations of the sessions handled
HandleSessions ==
    { Session(DomainAddr(<<"a">>, 53), "Udp", "in"),
      Session(IpAddr(V4(<<10, 0, 0, 1>>), 53), "Udp", "in") }

\* struct HysteriaDatagram
HysteriaDatagram(udp, destination) == [session |-> udp, destination |-> destination]

\* a variant that asks the client whatever is stored
needs_session_always(stored) == TRUE

\* handle, line 32: session_guard.is_none()
needs_session(stored) == ~stored.some

\* a new Handler and no task in handle; the rest stands by
InitHysteria ==
    /\ Holds(new("Exclude", LastIp))
    /\ NoCall
    /\ NoTask
    /\ NoRouter
    /\ NoTry
    /\ NoHandler

\* handle is called with a session
CallHandle(t, sess) ==
    /\ handle[t].pc = "idle"
    /\ handle' = [handle EXCEPT ![t] = [pc |-> "lock", sess |-> sess, ret |-> None]]
    /\ UNCHANGED <<session, session_guard, creations, fakeDnsVars, routerVars, matchVars>>

\* handle, line 31: self.session.lock().await returns the guard
LockSession(t) ==
    /\ handle[t].pc = "lock"
    /\ session_guard = "none"
    /\ session_guard' = t
    /\ handle' = [handle EXCEPT ![t].pc = "check"]
    /\ UNCHANGED <<session, creations, fakeDnsVars, routerVars, matchVars>>

\* handle, line 32: the client is asked if no session is stored
CheckSession(t) ==
    /\ handle[t].pc = "check"
    /\ handle' = [handle EXCEPT
                    ![t].pc = IF needs_session(session) THEN "create" ELSE "clone"]
    /\ UNCHANGED <<session, session_guard, creations, fakeDnsVars, routerVars, matchVars>>

\* handle, lines 33-38: the answer r of get_or_create_session arrives under
\* the guard; a session is stored, an error is returned by the ? and the
\* guard dropped
CreateSession(t, r) ==
    /\ handle[t].pc = "create"
    /\ IF r.ok
       THEN /\ creations < MaxCreations
            /\ session' = Some(r.val)
            /\ creations' = creations + 1
            /\ handle' = [handle EXCEPT ![t].pc = "clone"]
            /\ UNCHANGED session_guard
       ELSE /\ handle' = [handle EXCEPT ![t] = [pc |-> "idle", ret |-> Some(Err("Other"))]]
            /\ session_guard' = "none"
            /\ UNCHANGED <<session, creations>>
    /\ UNCHANGED <<fakeDnsVars, routerVars, matchVars>>

\* handle, lines 40-46: the stored session is cloned, the guard dropped and
\* the datagram of the session and the destination returned
CloneSession(t) ==
    /\ handle[t].pc = "clone"
    /\ handle' = [handle EXCEPT ![t] =
                    [pc |-> "idle",
                     ret |-> Some(Ok(HysteriaDatagram(session.val,
                                                      handle[t].sess.destination)))]]
    /\ session_guard' = "none"
    /\ UNCHANGED <<session, creations, fakeDnsVars, routerVars, matchVars>>

NextHysteria ==
    \E t \in HandleTasks :
      \/ \E sess \in HandleSessions : CallHandle(t, sess)
      \/ LockSession(t)
      \/ CheckSession(t)
      \/ \E r \in {Err("failed"), Ok(creations + 1)} : CreateSession(t, r)
      \/ CloneSession(t)

SpecHysteria == InitHysteria /\ [][NextHysteria]_vars

---------------------------------------------------------------------------
(* Properties.                                                             *)

\* the last octet of the address a u32 stands for
LowByte(n) == u32_to_ip(n)[4]

\* what the last call allocated (only where last.alloc.some)
Allocated == last.alloc.val

\* C1: in every reachable state domain_to_ip and ip_to_domain are exact
\* inverses: domain_to_ip[d] = a exactly when ip_to_domain[a] = d.
C1_MapsInverse ==
    /\ \A d \in DOMAIN domain_to_ip :
         /\ domain_to_ip[d] \in DOMAIN ip_to_domain
         /\ ip_to_domain[domain_to_ip[d]] = d
    /\ \A a \in DOMAIN ip_to_domain :
         /\ ip_to_domain[a] \in DOMAIN domain_to_ip
         /\ domain_to_ip[ip_to_domain[a]] = a

\* an address has just been taken from one domain and given to another,
\* and every address the cursor visits is assigned
C1_Witness ==
    /\ last.alloc.some
    /\ Allocated.evicted.some
    /\ Cardinality(DOMAIN ip_to_domain) = RangeLast + 1
    /\ Cardinality(DOMAIN domain_to_ip) = RangeLast + 1

\* C2: in every reachable state min_cursor <= cursor <= max_cursor, also
\* right after the cursor has stepped past max_cursor and wrapped.
C2_CursorInRange == U32Le(min_cursor, cursor) /\ U32Le(cursor, max_cursor)

\* the last address of the range has just been assigned: the cursor went
\* past max_cursor, was reset to min_cursor and moved on to the next address
C2_Witness ==
    /\ last.alloc.some
    /\ Allocated.addr = max_cursor
    /\ cursor = U32Inc(min_cursor)

\* C3: in every reachable state the cursor rests on an address whose low
\* byte is neither 0 nor 255, and so does every assigned address.
C3_CursorUsable ==
    /\ LowByte(cursor) \notin {0, 255}
    /\ \A a \in DOMAIN ip_to_domain : LowByte(a) \notin {0, 255}

\* C4: with no mappings, the first accepted A query allocates min_cursor + 1
\* and the response carries exactly one A answer with that address.
C4_FirstAllocation ==
    [][ ( /\ DOMAIN ip_to_domain = {}
          /\ DOMAIN domain_to_ip = {}
          /\ last'.op = "generate_fake_response"
          /\ last'.ret.ok
          /\ last'.ret.val.queries[1].query_type = "A" )
        => ( /\ DOMAIN ip_to_domain' = {U32Inc(min_cursor)}
             /\ Len(last'.ret.val.answers) = 1
             /\ last'.ret.val.answers[1].rr_type = "A"
             /\ last'.ret.val.answers[1].rdata = u32_to_ip(U32Inc(min_cursor)) )
      ]_vars

\* C5: right after address a is allocated for domain d, query_fake_ip(d)
\* returns a and query_domain(a) returns d, and both keep returning that
\* until a step gives a to another domain.
C5_RoundTrip ==
    /\ [](last.alloc.some =>
            /\ query_fake_ip(Self, Allocated.domain)
                 = Some(V4(u32_to_ip(Allocated.addr)))
            /\ query_domain(Self, V4(u32_to_ip(Allocated.addr)))
                 = Some(Allocated.domain))
    /\ [][ \A d \in Domains :
             LET r == query_fake_ip(Self, d)
             IN  (r.some /\ query_domain(Self, r.val) = Some(d))
                 => LET r1 == query_fake_ip(Self', d)
                        d1 == query_domain(Self', r.val)
                    IN  \/ (d1.some /\ d1.val # d)
                        \/ (r1 = r /\ d1 = Some(d))
         ]_vars

\* a domain has just been given an address, and another domain still
\* answers both lookups after later allocations
C5_Witness ==
    /\ last.alloc.some
    /\ query_fake_ip(Self, Allocated.domain) = Some(V4(u32_to_ip(Allocated.addr)))
    /\ \E d \in Domains \ {Allocated.domain} :
         /\ query_fake_ip(Self, d) = Some(V4(IpAt(1)))
         /\ query_domain(Self, V4(IpAt(1))) = Some(d)
    /\ Allocated.addr = max_cursor

\* C6: when allocate_ip gives a new domain an address held by an old
\* domain, query_fake_ip(old domain) then returns none and
\* query_domain(address) returns the new domain.
C6_ReuseEvicts ==
    (last.alloc.some /\ Allocated.evicted.some)
        => /\ query_fake_ip(Self, Allocated.evicted.val) = None
           /\ query_domain(Self, V4(u32_to_ip(Allocated.addr)))
                = Some(Allocated.domain)

\* an address was reused for a different domain by the last call
C6_Witness ==
    /\ last.op = "generate_fake_response"
    /\ last.ret.ok
    /\ last.alloc.some
    /\ Allocated.evicted.some
    /\ Allocated.evicted.val # Allocated.domain

\* C7: if queries that allocate keep arriving forever, every domain that
\* holds an address is eventually evicted.
C7_EventuallyEvicted ==
    ([]<><<FreshAllocation>>_vars)
        => \A d \in Domains :
             []((d \in DOMAIN domain_to_ip) => <>(d \notin DOMAIN domain_to_ip))

\* C8: on the range 198.18.0.0-198.18.255.255 allocate_ip never fails:
\* from every resting position prepare_next_cursor stops, within its three
\* steps, on an address of the range whose low byte is neither 0 nor 255.
C8_AllocateNeverFails ==
    (last.op = "allocate_ip")
        => /\ last.ret.ok
           /\ LowByte(cursor) \notin {0, 255}
           /\ U32Le(min_cursor, cursor) /\ U32Le(cursor, max_cursor)

\* the allocation at 198.18.255.254: the three steps go to .255, wrap to
\* 198.18.0.0 and stop at 198.18.0.1
C8_Witness ==
    /\ last.op = "allocate_ip"
    /\ last.ret.ok
    /\ u32_to_ip(Allocated.addr) = <<198, 18, 255, 254>>
    /\ u32_to_ip(cursor) = <<198, 18, 0, 1>>

\* byte-wise order of two addresses
OctetsLe(a, b) ==
    \/ a[1] < b[1]
    \/ a[1] = b[1] /\ a[2] < b[2]
    \/ a[1] = b[1] /\ a[2] = b[2] /\ a[3] < b[3]
    \/ a[1] = b[1] /\ a[2] = b[2] /\ a[3] = b[3] /\ a[4] <= b[4]

\* an IPv4 address between the first and the last address of the range
InRange(ip) ==
    /\ ip.v = "V4"
    /\ OctetsLe(u32_to_ip(min_cursor), ip.octets)
    /\ OctetsLe(ip.octets, u32_to_ip(max_cursor))

\* addresses in, around and far from the range, and an IPv6 address
ProbeIps ==
    { V4(IpAt(k)) : k \in 0..(RangeLast + 1) }
        \cup { V4(<<198, 17, 255, 255>>), V4(<<127, 0, 0, 1>>),
               V4(<<198, 19, 0, 1>>), V4(<<199, 18, 0, 1>>), V6 }

\* C9: is_fake_ip(ip) is true exactly when ip is an IPv4 address in
\* [min_cursor, max_cursor], whatever the maps hold; it is true for every
\* allocated address and false for every address outside the range.
C9_IsFakeIp ==
    /\ \A ip \in ProbeIps : is_fake_ip(Self, ip) = InRange(ip)
    /\ \A a \in DOMAIN ip_to_domain : is_fake_ip(Self, V4(u32_to_ip(a)))
    /\ \A d \in DOMAIN domain_to_ip : is_fake_ip(Self, query_fake_ip(Self, d).val)
    /\ (last.op = "is_fake_ip") => (last.ret.bool = InRange(last.arg.ip))

\* is_fake_ip has just returned false for the address after the range
\* while the last address of the range is assigned
C9_Witness ==
    /\ last.op = "is_fake_ip"
    /\ last.arg.ip = V4(IpAt(RangeLast + 1))
    /\ last.ret.bool = FALSE
    /\ max_cursor \in DOMAIN ip_to_domain

\* some filter entry is a substring of the domain or is the wildcard
Matches(domain) ==
    \E i \in 1..Len(filters) :
        Contains(domain, filters[i]) \/ filters[i] = <<"*">>

\* C10: in Exclude mode accept returns false exactly when some filter
\* entry is a substring of the domain or is "*"; in Include mode it
\* returns true exactly then.
C10_Accept ==
    \A d \in Domains :
        accept(Self, d) = (IF mode = "Exclude" THEN ~Matches(d) ELSE Matches(d))

\* a query has just been refused in Exclude mode by the second filter
\* entry, the wildcard, after the first entry did not match its domain
C10_Witness ==
    /\ mode = "Exclude"
    /\ filters = << <<"a", ".">>, <<"*">> >>
    /\ last.op = "generate_fake_response"
    /\ last.ret = Err("not accepted")
    /\ ~accept(Self, <<"b">>)
    /\ accept([Self EXCEPT !.filters = <<>>], <<"b">>)

\* C11: a generate_fake_response call that returns a failure leaves both
\* maps, the cursor and the filters as they were; with them the whole struct
\* is as it was, and the struct is all a later call reads.
C11_FailureLeavesState ==
    [][ ( /\ last_op' = "generate_fake_response"
          /\ ~last_ret'.ok )
        => /\ UNCHANGED <<ip_to_domain, domain_to_ip, cursor, filters>>
           /\ Self' = Self ]_vars

\* a query for a domain the filters reject has just failed, with mappings
\* and filters in place
C11_Witness ==
    /\ last.op = "generate_fake_response"
    /\ ~last.ret.ok
    /\ last.ret.err = "not accepted"
    /\ filters # <<>>
    /\ DOMAIN domain_to_ip # {}

\* the request of the call just made (only where last.op is
\* generate_fake_response and the request parses)
Request == last_arg.request.msg

\* the request is one generate_fake_response goes on to the filters with
WellFormed(request) ==
    /\ from_vec(request).ok
    /\ request.msg.queries # <<>>
    /\ request.msg.queries[1].query_class = "IN"
    /\ request.msg.queries[1].query_type \in {"A", "AAAA", "HTTPS"}

\* the domain the request asks about
Asked(request) == domain_of(request.msg.queries[1].name)

\* C12: a well-formed query for a domain the filters accept succeeds; an A
\* query is answered with exactly one A record carrying the domain's fake
\* address and the configured TTL, an AAAA or HTTPS query with no record,
\* and after either the domain is in domain_to_ip and its address maps back
\* to it in ip_to_domain.
C12_Answers ==
    [][ ( /\ last_op' = "generate_fake_response"
          /\ WellFormed(last_arg'.request)
          /\ accept(Self, Asked(last_arg'.request)) )
        => LET query == last_arg'.request.msg.queries[1]
               d == Asked(last_arg'.request)
           IN  /\ last_ret'.ok
               /\ d \in DOMAIN domain_to_ip'
               /\ domain_to_ip'[d] \in DOMAIN ip_to_domain'
               /\ ip_to_domain'[domain_to_ip'[d]] = d
               /\ query.query_type = "A" =>
                     /\ Len(last_ret'.val.answers) = 1
                     /\ last_ret'.val.answers[1].rr_type = "A"
                     /\ last_ret'.val.answers[1].rdata = u32_to_ip(domain_to_ip'[d])
                     /\ last_ret'.val.answers[1].ttl = ttl
               /\ query.query_type \in {"AAAA", "HTTPS"} =>
                     last_ret'.val.answers = <<>> ]_vars

\* an AAAA or HTTPS query has just been answered with no record and has
\* allocated an address for its domain
C12_Witness ==
    /\ last.op = "generate_fake_response"
    /\ last.ret.ok
    /\ Request.queries[1].query_type \in {"AAAA", "HTTPS"}
    /\ last.ret.val.answers = <<>>
    /\ last.alloc.some

\* C13: every successful generate_fake_response output is a Response with
\* the request's transaction id and opcode, response code NoError and the
\* request's first question alone; recursion-desired and checking-disabled
\* are the request's when the opcode is Query and are clear otherwise.
C13_Header ==
    ( /\ last.op = "generate_fake_response"
      /\ last.ret.ok )
    => LET resp == last.ret.val
       IN  /\ resp.message_type = "Response"
           /\ resp.id = Request.id
           /\ resp.op_code = Request.op_code
           /\ resp.response_code = "NoError"
           /\ resp.queries = <<Request.queries[1]>>
           /\ IF Request.op_code = "Query"
              THEN /\ resp.recursion_desired = Request.recursion_desired
                   /\ resp.checking_disabled = Request.checking_disabled
              ELSE /\ ~resp.recursion_desired
                   /\ ~resp.checking_disabled

\* a request with another opcode and both flags set has just been answered
C13_Witness ==
    /\ last.op = "generate_fake_response"
    /\ last.ret.ok
    /\ Request.op_code # "Query"
    /\ Request.recursion_desired
    /\ Request.checking_disabled
    /\ Len(Request.queries) = 1

\* C14: query_domain, query_fake_ip, is_fake_ip and add_filter leave both
\* maps and the cursor as they were; so does a well-formed query for a
\* domain that has a mapping, and where it is answered with an A record the
\* record carries the address the domain had; and a domain leaves
\* domain_to_ip only in a step that allocates its address to another domain.
C14_Frame ==
    [][ /\ last_op' \in {"query_domain", "query_fake_ip", "is_fake_ip", "add_filter"}
           => UNCHANGED <<ip_to_domain, domain_to_ip, cursor>>
        /\ ( /\ last_op' = "generate_fake_response"
             /\ WellFormed(last_arg'.request)
             /\ Asked(last_arg'.request) \in DOMAIN domain_to_ip )
           => /\ UNCHANGED <<ip_to_domain, domain_to_ip, cursor>>
              /\ ( /\ last_ret'.ok
                   /\ last_arg'.request.msg.queries[1].query_type = "A" )
                 => last_ret'.val.answers[1].rdata
                        = u32_to_ip(domain_to_ip[Asked(last_arg'.request)])
        /\ \A d \in DOMAIN domain_to_ip :
             d \notin DOMAIN domain_to_ip'
             => /\ last_alloc'.some
                /\ last_alloc'.val.addr = domain_to_ip[d]
                /\ last_alloc'.val.domain # d
                /\ ip_to_domain'[domain_to_ip[d]] = last_alloc'.val.domain ]_vars

\* a domain that had a mapping has just been asked about again and answered
\* with an A record, while another domain holds a mapping too
C14_Witness ==
    /\ last.op = "generate_fake_response"
    /\ last.ret.ok
    /\ ~last.alloc.some
    /\ Len(last.ret.val.answers) = 1
    /\ Cardinality(DOMAIN domain_to_ip) >= 2

\* the methods that take the shared lock
Readers == {"query_domain", "query_fake_ip", "is_fake_ip"}

\* where a task is between the first write of allocate_ip and its return
Allocating == {"remove_prev", "insert_domain", "advance", "respond"}

\* C15: under every interleaving of the calls, while a reading method holds
\* the lock no allocation is under way, the two maps are inverses and the
\* struct is the one the reader found; every call returns what the method
\* makes in one piece of the struct it found, and leaves that struct; an
\* allocation leaves the cursor off the address it assigned, and the
\* allocation that follows another assigns another address.
C15_Atomic ==
    /\ [] ( \A t \in Tasks :
              ( /\ task[t].pc = "held"
                /\ task[t].op \in Readers )
              => /\ \A u \in Tasks : task[u].pc \notin Allocating
                 /\ C1_MapsInverse
                 /\ Self = task[t].before )
    /\ [][ \A t \in Tasks :
             ( /\ task[t].pc \notin {"idle", "waiting"}
               /\ task'[t].pc = "idle" )
             => LET a == Atomic(task[t].op, task[t].arg, task[t].before)
                IN  /\ Self' = a.state
                    /\ last_ret' = a.ret
                    /\ last_alloc' = a.alloc
                    /\ a.alloc.some =>
                          /\ cursor' # a.alloc.val.addr
                          /\ last_alloc.some =>
                                last_alloc.val.addr # a.alloc.val.addr ]_vars

\* an allocation that evicted a domain has just returned, one task holds
\* the lock for a reading method and the other waits for it with a query
C15_Witness ==
    /\ last_alloc.some
    /\ last_alloc.val.evicted.some
    /\ \E t, u \in Tasks :
         /\ task[t].pc = "held"
         /\ task[t].op \in Readers
         /\ task[u].pc = "waiting"
         /\ task[u].op = "generate_fake_response"

\* task t returns from pick_route in this step
RouteReturns(t) == route[t].pc # "idle" /\ route'[t].pc = "idle"

\* C16: a pick_route call made after a call has returned tag T for its
\* cache key, with no reload in between, returns T and applies no rule.
C16_CacheConsistent ==
    [][ \A t \in RouteTasks :
          ( /\ RouteReturns(t)
            /\ route[t].known # {} )
          => /\ router_last'.ret.ok
             /\ route[t].known = {router_last'.ret.val}
             /\ router_last'.applied = 0 ]_vars

\* C17: after reload route_cache holds no entry made before it.
C17_ReloadClears == router_last.op = "reload" => route_cache = EmptyMap

\* C18: under every interleaving of pick_route calls a key of route_cache
\* stays in it and keeps its tag.
C18_CacheMonotonic ==
    [][ \A k \in DOMAIN route_cache :
          /\ k \in DOMAIN route_cache'
          /\ route_cache'[k] = route_cache[k] ]_vars

\* the lowest position of a rule whose condition is true for the session,
\* 0 if there is none
Lowest(sess) ==
    IF \E i \in 1..Len(rules) : rule_apply(rules[i], sess)
    THEN CHOOSE i \in 1..Len(rules) :
             /\ rule_apply(rules[i], sess)
             /\ \A j \in 1..(i - 1) : ~rule_apply(rules[j], sess)
    ELSE 0

\* C19: a pick_route call that misses the cache and whose session makes the
\* condition of some rule true returns, from the rule loop, the target of
\* the lowest-positioned such rule, and route_cache holds that target under
\* the cache key when it returns.
C19_FirstRuleWins ==
    [][ \A t \in RouteTasks :
          ( /\ route[t].pc = "rules"
            /\ route'[t] # route[t]
            /\ Lowest(route[t].sess) # 0 )
          => /\ RouteReturns(t)
             /\ router_last'.ret = Ok(rules[Lowest(route[t].sess)].target)
             /\ route[t].key \in DOMAIN route_cache'
             /\ route_cache'[route[t].key] = rules[Lowest(route[t].sess)].target
       ]_vars

\* the session whose domain two rules of either rule list name
TwoRuleSession == Session(DomainAddr(<<"x", ".", "a", ".", "b">>, 80), "Tcp", "in")

\* a call has just returned the target of the first rule for a session the
\* second rule, of another target, matches too
C19_Witness ==
    /\ router_last.op = "pick_route"
    /\ Len(rules) >= 2
    /\ rule_apply(rules[1], TwoRuleSession)
    /\ rule_apply(rules[2], TwoRuleSession)
    /\ rules[1].target # rules[2].target
    /\ router_last.applied = 1
    /\ router_last.ret = Ok(rules[1].target)
    /\ MapGet(route_cache, cache_key(TwoRuleSession).val) = Some(rules[1].target)

\* C20: a pick_route call that misses the cache, whose session no rule
\* matches, and for which either there is no DNS-assisted re-match (the
\* destination is no domain or domain_resolve is off) or the resolver
\* answers with no address or with a first address no rule matches, returns
\* "trojan_out", and route_cache holds "trojan_out" under the cache key
\* when it returns.
C20_DefaultRoute ==
    [][ \A t \in RouteTasks :
          ( /\ RouteReturns(t)
            /\ route[t].pc # "cache"
            /\ Lowest(route[t].sess) = 0
            /\ \/ ~(is_domain(route[t].sess.destination) /\ domain_resolve)
               \/ /\ router_last'.ips.some
                  /\ router_last'.ips.val.ok
                  /\ \/ router_last'.ips.val.val = <<>>
                     \/ Lowest(new_sess(route[t].sess,
                                        router_last'.ips.val.val[1])) = 0 )
          => /\ router_last'.ret = Ok("trojan_out")
             /\ route[t].key \in DOMAIN route_cache'
             /\ route_cache'[route[t].key] = "trojan_out" ]_vars

\* a call has just returned the default tag after the resolver answered
\* with no address
C20_Witness ==
    /\ router_last.op = "pick_route"
    /\ router_last.ips = Some(Ok(<<>>))
    /\ router_last.ret = Ok("trojan_out")
    /\ \E k \in DOMAIN route_cache : route_cache[k] = "trojan_out"

\* the addresses the DNS client answers with
LookupAddrs == UNION { { r.val[i] : i \in 1..Len(r.val) } : r \in { l \in Lookups : l.ok } }

\* C21: when no rule matches a domain destination and domain_resolve is on,
\* pick_route asks the resolver; the derived session differs from the
\* original only in having the first address answered as destination host
\* (same port, network and inbound tag); the rules are applied in order
\* once more to it, and on a match the call returns that rule's target and
\* route_cache holds it under the cache key of the original domain; the
\* session of the caller stays as it is throughout the call.
C21_DnsRematch ==
    /\ [] ( /\ \A sess \in RouteSessions : \A addr \in LookupAddrs :
                 /\ new_sess(sess, addr).destination.kind = "Ip"
                 /\ new_sess(sess, addr).destination.ip = addr
                 /\ new_sess(sess, addr).destination.port = sess.destination.port
                 /\ new_sess(sess, addr).network = sess.network
                 /\ new_sess(sess, addr).inbound_tag = sess.inbound_tag
            /\ \A t \in RouteTasks :
                 route[t].pc = "resolve"
                 => /\ is_domain(route[t].sess.destination)
                    /\ domain_resolve
                    /\ Lowest(route[t].sess) = 0 )
    /\ [][ \A t \in RouteTasks :
             /\ ( route[t].pc # "idle" /\ route'[t].pc # "idle" )
                => /\ route'[t].sess = route[t].sess
                   /\ route'[t].key = cache_key(route[t].sess).val
             /\ ( /\ route[t].pc = "rules"
                  /\ route'[t] # route[t]
                  /\ Lowest(route[t].sess) = 0
                  /\ is_domain(route[t].sess.destination)
                  /\ domain_resolve )
                => route'[t].pc = "resolve"
             /\ ( /\ route[t].pc = "resolve"
                  /\ route'[t] # route[t] )
                => LET ips == IF RouteReturns(t) THEN router_last'.ips.val
                              ELSE route'[t].ips.val
                       derived == new_sess(route[t].sess, ips.val[1])
                   IN  /\ ( ips.ok /\ ips.val # <<>> /\ Lowest(derived) # 0 )
                          => /\ RouteReturns(t)
                             /\ router_last'.ret = Ok(rules[Lowest(derived)].target)
                             /\ router_last'.applied = Len(rules) + Lowest(derived)
                             /\ MapGet(route_cache', cache_key(route[t].sess).val)
                                  = Some(rules[Lowest(derived)].target)
                       /\ ( RouteReturns(t) /\ router_last'.ret.ok )
                          => /\ ips.ok /\ ips.val # <<>>
                             /\ Lowest(derived) # 0
                             /\ router_last'.ret.val = rules[Lowest(derived)].target
       ]_vars

\* a call for a domain no rule names has just returned the target of the
\* CIDR rule, matched by the address the resolver answered with, and the
\* target is cached under the domain
C21_Witness ==
    /\ router_last.op = "pick_route"
    /\ router_last.ips = Some(Ok(<<V4(<<10, 0, 0, 1>>)>>))
    /\ router_last.ret = Ok("T3")
    /\ router_last.applied = Len(rules) + 3
    /\ MapGet(route_cache, <<"c">>) = Some("T3")

\* the targets of the rules of the configurations
RuleTags ==
    UNION { { load_rules(<<>>, c.val.rules)[i].target :
                i \in 1..Len(load_rules(<<>>, c.val.rules)) } :
            c \in { r \in RouterConfigs : r.some } }

\* the destination is a domain or an address
WellFormedDest(sess) ==
    is_domain(sess.destination) \/ ip_of_dest(sess.destination).some

\* C22: when the DNS lookup of the re-match fails, pick_route returns an
\* error, not the default tag, and route_cache stays as it was, so that the
\* key is still missing for the call that comes next; every other call
\* returns a tag: the target of a rule or the default tag, or "Direct" for
\* a destination that is neither a domain nor an address.
C22_LookupFailure ==
    /\ [] ( router_last.op = "pick_route"
            => IF router_last.ret.ok
               THEN IF "sess" \in DOMAIN router_last
                    THEN ~WellFormedDest(router_last.sess)
                    ELSE router_last.ret.val \in RuleTags \cup {default_target}
               ELSE router_last.ips.some /\ ~router_last.ips.val.ok )
    /\ [][ \A t \in RouteTasks :
             /\ ( /\ route[t].pc = "resolve"
                  /\ route'[t] # route[t]
                  /\ ~(IF RouteReturns(t) THEN router_last'.ips.val
                       ELSE route'[t].ips.val).ok )
                => /\ RouteReturns(t)
                   /\ ~router_last'.ret.ok
                   /\ route_cache' = route_cache
                   /\ returned' = returned
             /\ ( RouteReturns(t) /\ ~router_last'.ret.ok )
                => /\ route[t].pc = "resolve"
                   /\ ~router_last'.ips.val.ok
                   /\ route_cache' = route_cache ]_vars

\* a call has just failed on the lookup of a domain that has no entry in
\* route_cache, while the cache holds an entry for another key
C22_Witness ==
    /\ router_last.op = "pick_route"
    /\ ~router_last.ret.ok
    /\ router_last.ips = Some(Err("lookup failed"))
    /\ <<"c">> \notin DOMAIN route_cache
    /\ route_cache # EmptyMap

\* C23: for a destination that is neither a domain nor an address
\* pick_route returns "Direct" at once: no rule is applied, the resolver is
\* not asked, route_cache stays as it was, and the call never gets as far
\* as the cache, the rules, the resolver or the default.
C23_DirectShortcut ==
    /\ [] ( /\ \A t \in RouteTasks :
                 route[t].pc # "idle" => WellFormedDest(route[t].sess)
            /\ \A k \in DOMAIN route_cache :
                 \E sess \in { x \in RouteSessions : WellFormedDest(x) } :
                     cache_key(sess) = Some(k) )
    /\ [][ ( /\ router_last' # router_last
             /\ "sess" \in DOMAIN router_last' )
           => /\ ~WellFormedDest(router_last'.sess)
              /\ router_last'.ret = Ok("Direct")
              /\ router_last'.applied = 0
              /\ router_last'.ips = None
              /\ UNCHANGED <<route_cache, route, rules, domain_resolve>> ]_vars

\* "Direct" has just been returned for a destination that is neither,
\* while route_cache holds entries and another call is under way
C23_Witness ==
    /\ router_last.op = "pick_route"
    /\ "sess" \in DOMAIN router_last
    /\ router_last.sess = Session(NeitherAddr(80), "Tcp", "in")
    /\ router_last.ret = Ok("Direct")
    /\ route_cache # EmptyMap
    /\ \E t \in RouteTasks : route[t].pc = "rules"

\* the complete rule lists: what load_rules makes of each configuration
\* from an empty list, the list of no configuration being empty
CompleteLists ==
    { IF c.some THEN load_rules(<<>>, c.val.rules) ELSE <<>> : c \in RouterConfigs }

\* C24: under every interleaving the rule list is the complete list of one
\* configuration, never a part of one and never an old list with a new one
\* behind it; it does not change while a pick_route call is under way, so
\* both passes of a call see one and the same complete list; and right
\* after reload it is the complete list of the configuration given.
C24_ReloadAtomic ==
    /\ [] ( rules \in CompleteLists )
    /\ [][ /\ ( \E t \in RouteTasks : route[t].pc # "idle" )
              => UNCHANGED <<rules, domain_resolve>>
           /\ ( rules' # rules )
              => /\ router_last'.op = "reload"
                 /\ \A t \in RouteTasks : route[t].pc = "idle" /\ route'[t].pc = "idle"
                 /\ rules' \in CompleteLists ]_vars

\* reload has just put the second rule list in the place of the first,
\* under which the resolved domain was routed and cached
C24_Witness ==
    /\ router_last.op = "reload"
    /\ Len(rules) = 3
    /\ rules[1].target = "T2"
    /\ ~domain_resolve
    /\ MapGet(route_cache, <<"c">>) = Some("T3")

\* s ends with suf
EndsWith(s, suf) ==
    Len(suf) <= Len(s) /\ SubSeq(s, Len(s) - Len(suf) + 1, Len(s)) = suf

\* the suffix is the name or ends it after a dot
SuffixOf(suffix, name) == name = suffix \/ EndsWith(name, <<".">> \o suffix)

\* the values of the entries of a type
ValuesOf(domains, type) ==
    { domains[i].value : i \in { j \in 1..Len(domains) : domains[j].type = type } }

\* C25: the domain matcher built from a list of entries is true of a
\* session exactly when the destination is a domain and the domain is the
\* value of a FULL entry, or has the value of a DOMAIN entry for a suffix on
\* a label boundary, or contains the value of a PLAIN entry; it is false of
\* every address.
C25_DomainMatcher ==
    tried.op = "domain"
    => /\ tried.ret =
            ( /\ tried.sess.destination.kind = "Domain"
              /\ LET name == tried.sess.destination.domain
                 IN  \/ name \in ValuesOf(tried.domains, "FULL")
                     \/ \E v \in ValuesOf(tried.domains, "DOMAIN") : SuffixOf(v, name)
                     \/ \E v \in ValuesOf(tried.domains, "PLAIN") : Contains(name, v) )
       /\ tried.sess.destination.kind # "Domain" => ~tried.ret

\* a matcher with a FULL and a DOMAIN entry that do not fit the domain has
\* matched it by the keyword of a PLAIN entry
C25_Witness ==
    /\ tried.op = "domain"
    /\ tried.ret
    /\ tried.sess.destination = DomainAddr(<<"x", "a", ".", "b">>, 80)
    /\ tried.domains = << [type |-> "DOMAIN", value |-> <<"a", ".", "b">>],
                          [type |-> "PLAIN", value |-> <<"a", ".">>] >>

\* the k-th bit of an address, counted from the highest
Bit(octets, k) ==
    (octets[((k - 1) \div 8) + 1] \div Pow2(7 - ((k - 1) % 8))) % 2

\* the address has the first prefix_len bits of the block
InBlock(addr, block) ==
    /\ addr.v = "V4"
    /\ \A k \in 1..block.prefix_len : Bit(addr.octets, k) = Bit(block.octets, k)

\* two characters are one letter, in whatever case, or one character
SameLetter(a, b) ==
    \/ a = b
    \/ \E k \in 1..26 : {a, b} = {UpperCase[k], LowerCase[k]}

\* two strings are equal up to the case of their letters
EqualIgnoringCase(x, y) ==
    Len(x) = Len(y) /\ \A i \in 1..Len(x) : SameLetter(x[i], y[i])

\* C26: the CIDR matcher and the GeoIP matcher are false of every domain
\* destination; the CIDR matcher is true exactly when the destination
\* address lies in one of the blocks that parsed; the GeoIP matcher is true
\* exactly when the lookup of the address succeeds with a country whose
\* code equals the target up to case, and false, not an error, when the
\* lookup fails or the country or its code is missing.
C26_CidrAndGeoMatchers ==
    /\ tried.op = "ip_cidr"
       => /\ tried.ret \in BOOLEAN
          /\ tried.ret =
               ( /\ tried.sess.destination.kind = "Ip"
                 /\ \E i \in 1..Len(tried.ips) :
                      /\ tried.ips[i].text = "cidr"
                      /\ InBlock(tried.sess.destination.ip, tried.ips[i]) )
          /\ tried.sess.destination.kind = "Domain" => ~tried.ret
    /\ tried.op = "mmdb"
       => /\ tried.ret \in BOOLEAN
          /\ tried.ret =
               ( /\ tried.sess.destination.kind = "Ip"
                 /\ LET found == geo_lookup(tried.file, tried.sess.destination.ip)
                    IN  /\ found.r = "country"
                        /\ found.iso_code.some
                        /\ EqualIgnoringCase(found.iso_code.val, tried.country_code) )
          /\ tried.sess.destination.kind = "Domain" => ~tried.ret

\* the GeoIP matcher has matched an address whose country code is written
\* in another case than the target
C26_Witness ==
    /\ tried.op = "mmdb"
    /\ tried.ret
    /\ tried.country_code = <<"u", "s">>
    /\ geo_lookup(tried.file, tried.sess.destination.ip) = GeoFound(<<"U", "s">>)

\* the string is a number as a port is written: digits, after a plus sign
\* or not
IsNumeral(str) ==
    LET digits == IF str # <<>> /\ str[1] = "+" THEN Tail(str) ELSE str
    IN  /\ digits # <<>>
        /\ \A i \in 1..Len(digits) : \E k \in 1..10 : Digit[k] = digits[i]

RECURSIVE NumeralValue(_)
\* the number a numeral stands for: ten times that of all but the last
\* digit, and the last digit
NumeralValue(str) ==
    IF str = <<>> \/ str = <<"+">> THEN 0
    ELSE 10 * NumeralValue(SubSeq(str, 1, Len(str) - 1))
           + (CHOOSE k \in 0..9 : Digit[k + 1] = str[Len(str)])

\* the places of the dashes of an entry
Dashes(entry) == { i \in 1..Len(entry) : entry[i] = "-" }

\* the two bounds of an entry with one dash
BoundsOf(entry) ==
    LET dash == CHOOSE i \in Dashes(entry) : TRUE
    IN  <<SubSeq(entry, 1, dash - 1), SubSeq(entry, dash + 1, Len(entry))>>

\* an entry is well-formed: two tokens, both of them numbers a port can
\* be, the first not above the second
WellFormedRange(entry) ==
    /\ Cardinality(Dashes(entry)) = 1
    /\ IsNumeral(BoundsOf(entry)[1]) /\ NumeralValue(BoundsOf(entry)[1]) <= MaxU16
    /\ IsNumeral(BoundsOf(entry)[2]) /\ NumeralValue(BoundsOf(entry)[2]) <= MaxU16
    /\ NumeralValue(BoundsOf(entry)[1]) <= NumeralValue(BoundsOf(entry)[2])

\* C27: the port matcher built from a list of "start-end" strings is true
\* of a destination port p exactly when start <= p <= end, both bounds
\* included, for some well-formed entry; an entry with a bound that is no
\* number or is missing, with start above end, or with another count of
\* tokens than two gives no range, and the ranges built are those of the
\* well-formed entries, in their order.
C27_PortMatcher ==
    tried.op = "port"
    => LET good == SelectSeq(tried.port_ranges, WellFormedRange)
       IN  /\ tried.ret =
                ( \E i \in 1..Len(tried.port_ranges) :
                     /\ WellFormedRange(tried.port_ranges[i])
                     /\ NumeralValue(BoundsOf(tried.port_ranges[i])[1]) <= tried.port
                     /\ tried.port <= NumeralValue(BoundsOf(tried.port_ranges[i])[2]) )
           /\ tried.made =
                [i \in 1..Len(good) |->
                   [start |-> NumeralValue(BoundsOf(good[i])[1]),
                    end |-> NumeralValue(BoundsOf(good[i])[2])]]

\* port 80 has matched the range 80-80, the other entry having its bounds
\* the wrong way round
C27_Witness ==
    /\ tried.op = "port"
    /\ tried.ret
    /\ tried.port = 80
    /\ tried.port_ranges = << <<"2", "-", "1">>, <<"8", "0", "-", "8", "0">> >>
    /\ tried.made = <<[start |-> 80, end |-> 80]>>

\* the inserted domains that are the name or end it after a dot
MatchingSuffixes(inserted, name) ==
    { inserted[i] : i \in { j \in 1..Len(inserted) : SuffixOf(inserted[j], name) } }

\* C28: after any sequence of inserts, matches(domain) reports a match
\* exactly when some inserted suffix is the domain or ends it right after
\* a dot: a.b matches x.a.b and a.b, and neither xa.b nor a.b.c nor ab.
C28_LabelAligned ==
    tried.op = "trie"
    => ( tried.ret.some <=> MatchingSuffixes(tried.inserted, tried.name) # {} )

\* a.b has been inserted; x.a.b has matched
C28_Witness ==
    /\ tried.op = "trie"
    /\ tried.inserted = << <<"a", ".", "b">> >>
    /\ tried.name = <<"x", ".", "a", ".", "b">>
    /\ tried.ret.some

\* C29: when several inserted suffixes match a domain, matches returns the
\* longest of them, the one stored at the last end node on the way from
\* the last label to the first; when none matches it returns none.
C29_LongestSuffix ==
    tried.op = "trie"
    => LET matching == MatchingSuffixes(tried.inserted, tried.name)
       IN  IF matching = {} THEN tried.ret = None
           ELSE /\ tried.ret.some
                /\ tried.ret.val \in matching
                /\ \A s \in matching : Len(s) <= Len(tried.ret.val)

\* a rule of the configuration has an entry a matcher can use: a domain
\* entry, a CIDR block that parses, a GeoIP file that opens, a well-formed
\* port range, a network that is TCP or UDP, or an inbound tag
Effective(rr) ==
    \/ rr.domains # <<>>
    \/ \E i \in 1..Len(rr.ip_cidrs) : rr.ip_cidrs[i].text = "cidr"
    \/ \E i \in 1..Len(rr.mmdbs) : rr.mmdbs[i].file \in DOMAIN GeoFiles
    \/ \E i \in 1..Len(rr.port_ranges) : WellFormedRange(rr.port_ranges[i])
    \/ \E i \in 1..Len(rr.networks) :
         EqualIgnoringCase(rr.networks[i], <<"t", "c", "p">>)
         \/ EqualIgnoringCase(rr.networks[i], <<"u", "d", "p">>)
    \/ rr.inbound_tags # <<>>

\* C30: the rule list loaded has one rule for every rule of the
\* configuration with at least one effective matcher, in the order of the
\* configuration; a rule without one, be it that all its port ranges are
\* malformed, all its CIDR blocks unparseable or none of its GeoIP files
\* can be opened, is left out, and the rules after it are loaded.
C30_LoadRules ==
    tried.op = "load"
    => LET kept == SelectSeq(tried.routing_rules, Effective)
       IN  /\ Len(tried.ret) = Len(kept)
           /\ \A i \in 1..Len(kept) : tried.ret[i].target = kept[i].target_tag

\* the last two labels of a domain, joined by a dot
LastTwoLabels(name) == JoinLabels(LastN(Split(name, "."), 2))

\* C31: the cache key of a domain destination is its last two labels, the
\* same for every domain that ends in them; a pick_route call for a domain
\* made after a call for a domain with these last two labels has returned
\* tag T, with no reload in between, returns T and applies no rule,
\* whatever the rules would give for the domain itself.
C31_TwoLabelKey ==
    /\ [] ( \A t \in RouteTasks :
              ( route[t].pc # "idle" /\ is_domain(route[t].sess.destination) )
              => route[t].key = LastTwoLabels(route[t].sess.destination.domain) )
    /\ [][ \A t \in RouteTasks :
             ( /\ RouteReturns(t)
               /\ is_domain(route[t].sess.destination)
               /\ route[t].known # {} )
             => /\ router_last'.ret.ok
                /\ route[t].known = {router_last'.ret.val}
                /\ router_last'.applied = 0 ]_vars

\* the destination host of a session: the destination less its port
HostOf(sess) == [sess.destination EXCEPT !.port = 0]

\* C32: the cache key is the same for two sessions with one destination
\* host, whatever their ports, networks and inbound tags; a pick_route call
\* for an address made after a call for that address has returned tag T,
\* with no reload in between, returns T and applies no rule, whatever the
\* port, the network and the inbound tag of the session.
C32_HostOnlyKey ==
    /\ [] ( \A s1, s2 \in RouteSessions :
              HostOf(s1) = HostOf(s2) => cache_key(s1) = cache_key(s2) )
    /\ [][ \A t \in RouteTasks :
             ( /\ RouteReturns(t)
               /\ ip_of_dest(route[t].sess.destination).some
               /\ route[t].known # {} )
             => /\ router_last'.ret.ok
                /\ route[t].known = {router_last'.ret.val}
                /\ router_last'.applied = 0 ]_vars

\* C33: the DNS client is asked at most once in a call of pick_route, and
\* only after every rule has failed on the session as given: a call waiting
\* for the answer has got none yet, is for a domain with domain_resolve set
\* and no rule applies to its session; a call that has its answer never
\* waits again; and a call that returns from the cache, or whose session a
\* rule applies to, or for an address, or with domain_resolve unset, returns
\* without an answer of the DNS client.
C33_ResolveOnce ==
    /\ [] ( \A t \in RouteTasks :
              /\ route[t].pc = "resolve"
                 => /\ route[t].ips = None
                    /\ is_domain(route[t].sess.destination)
                    /\ domain_resolve
                    /\ first_match(rules, route[t].sess) = 0
              /\ ( route[t].pc # "idle" /\ route[t].ips.some )
                 => route[t].pc = "default" )
    /\ [][ \A t \in RouteTasks :
             ( /\ RouteReturns(t)
               /\ \/ route[t].pc = "cache"
                  \/ first_match(rules, route[t].sess) # 0
                  \/ ~is_domain(route[t].sess.destination)
                  \/ ~domain_resolve )
             => router_last'.ips = None ]_vars

\* a call has asked the DNS client, got an address no rule applies to and
\* is about to return the default tag
C33_Witness ==
    \E t \in RouteTasks :
      /\ route[t].pc = "default"
      /\ route[t].ips.some
      /\ route[t].ips.val.ok
      /\ route[t].ips.val.val # <<>>

\* a step of task t is waiting for a guard on route_cache it cannot get
Blocked(t) ==
    \/ route[t].pc = "cache" /\ ~can_read(t)
    \/ route[t].pc = "insert" /\ ~can_write(t)

\* C34: pick_route holds no guard on route_cache while it evaluates the
\* rules or waits for the DNS client; while a call waits for the DNS
\* client, another call that wants the guard to read or to fill the cache
\* is held up by no one but a third call inside its read or its insert; and
\* no state is a deadlock: a call held up at the lock is held up by a call
\* that is inside its read or its insert and leaves it without waiting.
C34_NoLockHeld ==
    /\ \A t \in RouteTasks :
         route[t].pc \in {"rules", "resolve", "insert", "cache"}
         => Guard(t) = "none"
    /\ \A t, u \in RouteTasks :
         ( route[t].pc = "resolve" /\ Blocked(u) )
         => \E v \in RouteTasks \ {t, u} : route[v].pc \in {"reading", "writing"}
    /\ \A u \in RouteTasks :
         Blocked(u)
         => \E v \in RouteTasks \ {u} : route[v].pc \in {"reading", "writing"}

\* one call waits for the DNS client while another is inside its insert
\* into the cache
C34_Witness ==
    \E t, u \in RouteTasks :
      /\ route[t].pc = "resolve"
      /\ route[u].pc = "writing"
      /\ Guard(u) = "write"

\* the address after c in the range, the first after the last
Succ(c) == IF c = max_cursor THEN min_cursor ELSE U32Inc(c)

\* an address that may be given to a domain
Usable(c) == LowByte(c) \notin {0, 255}

\* the next usable address after c, going round the range
NextUsable(c) ==
    IF Usable(Succ(c)) THEN Succ(c)
    ELSE IF Usable(Succ(Succ(c))) THEN Succ(Succ(c))
    ELSE Succ(Succ(Succ(c)))

\* C35: mappings are evicted in the order they were made: a step that
\* allocates gives the fresh domain the usable address the cursor rests on
\* and moves the cursor to the next usable address, the first after the
\* last; a mapped domain loses its mapping in that step exactly when the
\* cursor rested on its address, and keeps its address otherwise; a step
\* that does not allocate, a query for a mapped domain among them, leaves
\* the cursor and both maps as they are.
C35_AllocationOrder ==
    [][ IF last_alloc'.some
        THEN /\ last_alloc'.val.addr = cursor
             /\ Usable(cursor)
             /\ cursor' = NextUsable(cursor)
             /\ \A d \in DOMAIN domain_to_ip :
                  /\ d \notin DOMAIN domain_to_ip' <=> domain_to_ip[d] = cursor
                  /\ d \in DOMAIN domain_to_ip' => domain_to_ip'[d] = domain_to_ip[d]
        ELSE UNCHANGED <<cursor, domain_to_ip, ip_to_domain>>
      ]_vars

\* the domain an A query asks for
Queried(request) == domain_of(request.msg.queries[1].name)

\* C36: add_filter leaves both maps and the cursor as they are, and a mapped
\* domain the filters reject is still answered by query_fake_ip with its
\* address and by query_domain with its name, while generate_fake_response
\* for it fails and changes nothing.
C36_FilterGatesResponse ==
    /\ [][ last_op' = "add_filter"
           => UNCHANGED <<ip_to_domain, domain_to_ip, cursor>> ]_vars
    /\ [] ( \A request \in QueryHeaderRequests :
              ( /\ Queried(request) \in DOMAIN domain_to_ip
                /\ ~accept(Self, Queried(request)) )
              => LET d == Queried(request)
                     a == V4(u32_to_ip(domain_to_ip[d]))
                     r == generate_fake_response(Self, request)
                 IN  /\ query_fake_ip(Self, d) = Some(a)
                     /\ query_domain(Self, a) = Some(d)
                     /\ ~r.ret.ok
                     /\ r.state = Self
                     /\ r.alloc = None )

\* a filter was added after a domain was mapped, and an A query for the
\* domain has just been refused while the domain is still mapped
C36_Witness ==
    /\ last_op = "generate_fake_response"
    /\ last_arg.request \in QueryHeaderRequests
    /\ Queried(last_arg.request) \in DOMAIN domain_to_ip
    /\ ~accept(Self, Queried(last_arg.request))
    /\ mode = "Exclude"
    /\ filters # <<>>
    /\ ~last_ret.ok

\* the rule has a matcher of the kind
HasMatcher(rule, kind) ==
    \E i \in 1..Len(rule.condition) : rule.condition[i].kind = kind

\* C37: a rule loaded with a domain matcher and with a CIDR or a GeoIP
\* matcher applies to no session, neither to the session as given nor to
\* the session with a resolved address for its destination, so the rule
\* loop never returns from it.
C37_MixedRuleNeverMatches ==
    ( /\ tried.op = "rule"
      /\ tried.loaded # <<>>
      /\ HasMatcher(tried.loaded[1], "domain")
      /\ HasMatcher(tried.loaded[1], "ip_cidr") \/ HasMatcher(tried.loaded[1], "mmdb") )
    => /\ tried.matched = 0
       /\ tried.rematched = 0
       /\ \A s \in MatchSessions, a \in ResolvedAddrs :
            /\ ~rule_apply(tried.loaded[1], s)
            /\ ~rule_apply(tried.loaded[1], new_sess(s, a))

\* a rule of a keyword and a CIDR block was tried on a domain that has the
\* keyword and on an address of the block, each matcher holding on one of
\* the two sessions and the rule on neither
C37_Witness ==
    /\ tried.op = "rule"
    /\ HasMatcher(tried.loaded[1], "domain")
    /\ HasMatcher(tried.loaded[1], "ip_cidr")
    /\ is_domain(tried.sess.destination)
    /\ matcher_apply(tried.loaded[1].condition[1], tried.sess)
    /\ matcher_apply(tried.loaded[1].condition[2], new_sess(tried.sess, tried.addr))
    /\ tried.matched = 0
    /\ tried.rematched = 0

\* C38: for every list of inserted domains and every domain looked up,
\* TrieNode::matches is true exactly when SuffixTrie::matches returns a
\* suffix.
C38_TriesAgree ==
    tried.op = "trie_node" => ( tried.ret <=> tried.suffix.some )

\* both tries match a subdomain of an inserted domain, a shorter domain
\* having been inserted as well
C38_Witness ==
    /\ tried.op = "trie_node"
    /\ tried.inserted = << <<"a", ".", "b">>, <<"b">> >>
    /\ tried.name = <<"x", ".", "a", ".", "b">>
    /\ tried.ret
    /\ tried.suffix.some

\* the registrable part as the lists give it: the last three labels behind
\* a special suffix, the last two behind a common suffix, the domain itself
\* otherwise
Reduced(name) ==
    LET parts == Split(name, ".")
    IN  IF JoinLabels(LastN(parts, 2)) \in SPECIAL_SUFFIXES
        THEN JoinLabels(LastN(parts, 3))
        ELSE IF parts[Len(parts)] \in COMMON_SUFFIXES
        THEN JoinLabels(LastN(parts, 2))
        ELSE name

\* C39: get_registrable_domain returns the last three labels of a domain
\* whose last two labels are a special suffix, the last two labels of a
\* domain whose last label is a common suffix, and a domain with neither
\* unchanged.
C39_RegistrableDomain ==
    tried.op = "registrable" => tried.ret = Reduced(tried.name)

\* handle has returned an error from task t in the step
HandleFails(t) ==
    /\ handle[t].pc # "idle"
    /\ handle'[t].pc = "idle"
    /\ ~handle'[t].ret.val.ok

\* C40: however the calls of handle on one Handler interleave,
\* get_or_create_session returns a session to it at most once; a stored
\* session is never replaced and every datagram returned holds it; a call
\* that fails leaves no session stored and the Mutex free, and a call that
\* gets the Mutex asks the client exactly when no session is stored.
C40_OneSession ==
    /\ [] ( creations <= 1 )
    /\ [] ( \A t \in HandleTasks :
              ( handle[t].ret.some /\ handle[t].ret.val.ok )
              => session = Some(handle[t].ret.val.val.session) )
    /\ [][ session.some => session' = session ]_vars
    /\ [][ \A t \in HandleTasks :
             /\ HandleFails(t) => ( session' = None /\ session_guard' = "none" )
             /\ ( handle[t].pc = "check" /\ handle'[t].pc # "check" )
                => ( handle'[t].pc = "create" <=> session = None ) ]_vars

\* a call has failed, a later call has created the session, and a third
\* call has returned a datagram of the same session for another destination
C40_Witness ==
    \E t, u, v \in HandleTasks :
      /\ handle[t].pc = "idle" /\ handle[u].pc = "idle" /\ handle[v].pc = "idle"
      /\ handle[t].ret = Some(Err("Other"))
      /\ handle[u].ret.some /\ handle[u].ret.val.ok
      /\ handle[v].ret.some /\ handle[v].ret.val.ok
      /\ handle[u].ret.val.val.destination # handle[v].ret.val.val.destination
      /\ handle[u].ret.val.val.session = handle[v].ret.val.val.session
      /\ creations = 1

====
